---- MODULE Spec2Model ----
(***************************************************************************)
(* TinyDB storage core: the buffer pool manager (buffer_pool_manager.cpp)  *)
(* with its collaborators: the LRU replacer, the disk manager and the log  *)
(* manager.  Every public operation of the buffer pool runs under the      *)
(* manager mutex (latch_), so each is one atomic action.                   *)
(***************************************************************************)
EXTENDS Integers, Sequences, FiniteSets, TLC

\* ------------------------------------------------------------------ bounds
\* pool_size_ handed to the constructor
PoolSize == 2
\* cap on a frame's pin_count_ (the code has none)
MaxPin == 2
\* cap on the number of modifications callers make to page bytes
MaxMod == 1
\* number of threads that call the buffer pool concurrently
NumThreads == 2
\* the page ids the disk manager can hand out: 0 .. MaxPageId-1
MaxPageId == PoolSize + 1

INVALID_PAGE_ID == -1

FrameIds == 0 .. (PoolSize - 1)
PageIds == 0 .. (MaxPageId - 1)
NoFrame == -1
Threads == 1 .. NumThreads
NoThread == 0
NoData == [lsn |-> -1, body |-> -1]

VARIABLES
  pages,         \* pages_[frame]: page_id_, pin_count_, is_dirty_, data_
  page_table,    \* page_table_: page id -> frame id
  free_list,     \* free_list_ (front = head of the sequence)
  replacer,      \* replacer_: eligible frames, least recently unpinned first
  disk,          \* the database file: page id -> bytes, NoData if never written
  next_page_id,  \* disk manager: next fresh page id
  freed_ids,     \* disk manager: deallocated page ids kept for reuse
  log_manager,   \* TRUE iff log_manager_ != nullptr
  live,          \* callers: page ids handed out by NewPage and not deleted
  mod_count,     \* callers: number of modifications made so far
  committed,     \* history: page id -> bytes at its last dirty unpin
  touched,       \* history: page ids modified since their last dirty unpin
  latch,         \* latch_: the thread that holds the manager mutex, or NoThread
  pc,            \* thread -> where it is inside FetchPage ("idle" outside)
  arg,           \* thread -> the page_id argument of its FetchPage
  it,            \* thread -> the frame page_table_.find gave it, or NoFrame
  held,          \* history: page id -> pins handed out minus successful unpins
  metadata,      \* IndexBuilder: the IndexMetadata handed to Build
  index,         \* IndexBuilder: what Build gave back
  hdr,           \* a BPlusTreePage header: page_type_, size_, max_size_, parent_page_id_
  tree,          \* the B+Tree: root_page_id, leaf/internal max size, its pages
  page_latch,    \* page -> its reader-writer latch: the writer, the readers
  crab,          \* thread -> where its index operation is on its crab path
  flush,         \* the thread inside FlushPageHelper: its position and locals
  calc           \* integer arithmetic: the operands lhs and rhs, the outcome

bpm == <<pages, page_table, free_list, replacer, disk, next_page_id, freed_ids,
         log_manager>>
hist == <<mod_count, committed, touched>>
conc == <<latch, pc, arg, it, held>>
\* the state of the components other than the buffer pool
aux == <<metadata, index, hdr, tree, page_latch, crab, flush, calc>>
vars == <<bpm, live, hist, conc, aux>>

\* the buffer pool and its collaborators as one value
St ==
  [pages |-> pages, page_table |-> page_table, free_list |-> free_list,
   replacer |-> replacer, disk |-> disk, next_page_id |-> next_page_id,
   freed_ids |-> freed_ids, log_manager |-> log_manager]

\* ------------------------------------------------------------ page bytes
\* Page::ZeroData: all bytes zero, so the header LSN is zero too
ZeroData == [lsn |-> 0, body |-> 0]

\* PageHeader::GetLSN on the page bytes
GetLSN(data) == data.lsn

\* ------------------------------------------------------------ containers
\* std::unordered_map::erase(key): no-op when the key is absent
Erase(pt, k) == [p \in (DOMAIN pt) \ {k} |-> pt[p]]

\* std::unordered_map::operator[]= : inserts or overwrites
Put(pt, k, v) == [p \in (DOMAIN pt) \cup {k} |-> IF p = k THEN v ELSE pt[p]]

\* std::list::back / pop_back / push_front
Back(l) == l[Len(l)]
PopBack(l) == SubSeq(l, 1, Len(l) - 1)
PushFront(l, x) == <<x>> \o l

Range(s) == {s[i] : i \in DOMAIN s}

\* ---------------------------------------------------------- LRU replacer
Remove(s, x) == SelectSeq(s, LAMBDA y : y # x)

\* LRUReplacer::Unpin: add at the most-recent end, idempotent
ReplacerUnpin(r, f) == IF f \in Range(r) THEN r ELSE Append(r, f)

\* LRUReplacer::Pin: remove, no-op if absent
ReplacerPin(r, f) == Remove(r, f)

\* LRUReplacer::Size
ReplacerSize(r) == Len(r)

\* LRUReplacer::Evict: the least recently unpinned frame; fails when empty
ReplacerEvict(r) ==
  IF Len(r) = 0 THEN [ok |-> FALSE, frame |-> NoFrame, replacer |-> r]
  ELSE [ok |-> TRUE, frame |-> Head(r), replacer |-> Tail(r)]

\* ------------------------------------------------------ calls to collaborators
\* one call made to the disk manager or the log manager, or the erasure of a
\* victim's page table entry ("Erase")
Ev(call, pid, lsn, data) == [call |-> call, pid |-> pid, lsn |-> lsn, data |-> data]

\* DiskManager::AllocatePage: a fresh id (monotonically increasing) or a freed
\* id kept for reuse
AllocatePage(next, freed) ==
  (IF next < MaxPageId
     THEN {[pid |-> next, next |-> next + 1, freed |-> freed]}
     ELSE {})
  \cup {[pid |-> p, next |-> next, freed |-> freed \ {p}] : p \in freed}

\* DiskManager::DeallocatePage: remember the id for reuse
DeallocatePage(freed, pid) == freed \cup {pid}

\* DiskManager::ReadPage: the stored bytes; a page never written reads as zeros,
\* or fails with an IO error when outbound_is_error is set (buffer untouched)
ReadPage(dk, pid, old, outbound_is_error) ==
  IF dk[pid] # NoData THEN [ok |-> TRUE, data |-> dk[pid]]
  ELSE IF outbound_is_error THEN [ok |-> FALSE, data |-> old]
  ELSE [ok |-> TRUE, data |-> ZeroData]

\* DiskManager::WritePage
WritePage(dk, pid, data) == [dk EXCEPT ![pid] = data]

\* the outcome of a call: the state after it, what it returned (res, and the
\* page id and frame that go with it), the eviction victim, the calls it made
Result(s, res, pid, frame, victim, io) ==
  [s |-> s, res |-> res, pid |-> pid, frame |-> frame, victim |-> victim, io |-> io]

\* ------------------------------------------------------- FlushPageHelper
FlushLog_behind(lm, data) ==
  IF lm THEN <<Ev("Flush", INVALID_PAGE_ID, GetLSN(data) - 1, NoData)>> ELSE <<>>

\* lines 187-197: the log is forced up to the header LSN of the page
FlushLog(lm, data) ==
  IF lm THEN <<Ev("Flush", INVALID_PAGE_ID, GetLSN(data), NoData)>> ELSE <<>>

FlushPageHelper_ifdirty(s, frame_id) ==
  LET page == s.pages[frame_id] IN
  IF ~page.is_dirty THEN [s |-> s, io |-> <<>>]
  ELSE
    [s |-> [s EXCEPT !.disk = WritePage(s.disk, page.page_id, page.data),
                     !.pages[frame_id].is_dirty = FALSE],
     io |-> FlushLog(s.log_manager, page.data)
            \o <<Ev("Write", page.page_id, GetLSN(page.data), page.data)>>]

\* lines 183-200: force the log, write the page, clear the dirty flag

FlushPageHelper(s, frame_id) ==
  LET page == s.pages[frame_id] IN
  [s |-> [s EXCEPT !.disk = WritePage(s.disk, page.page_id, page.data),
                   !.pages[frame_id].is_dirty = FALSE],
   io |-> FlushLog(s.log_manager, page.data)
          \o <<Ev("Write", page.page_id, GetLSN(page.data), page.data)>>]

\* ------------------------------------------------ obtaining a frame on a miss
WriteBackVictim_never(s, frame_id) == [s |-> s, io |-> <<>>]

\* lines 123-125 (and 223-225): a dirty victim is written back
WriteBackVictim(s, frame_id) ==
  IF s.pages[frame_id].is_dirty THEN FlushPageHelper(s, frame_id)
  ELSE [s |-> s, io |-> <<>>]

EvictMapping_keep(pt, page) == pt

\* line 127 (and 227): evict this page
EvictMapping(pt, page) == Erase(pt, page.page_id)

\* lines 108-128 (lines 213-228 of NewPage are the same code): the free list
\* first, else evict; the victim's mapping is erased after the write-back
ObtainFrame(s) ==
  IF Len(s.free_list) > 0 THEN
    [ok |-> TRUE, frame |-> Back(s.free_list), victim |-> NoFrame,
     s |-> [s EXCEPT !.free_list = PopBack(s.free_list)], io |-> <<>>]
  ELSE
    LET e == ReplacerEvict(s.replacer) IN
    IF ~e.ok THEN
      [ok |-> FALSE, frame |-> NoFrame, victim |-> NoFrame, s |-> s, io |-> <<>>]
    ELSE
      LET w == WriteBackVictim([s EXCEPT !.replacer = e.replacer], e.frame) IN
      [ok |-> TRUE, frame |-> e.frame, victim |-> e.frame,
       s |-> [w.s EXCEPT !.page_table =
                EvictMapping(w.s.page_table, w.s.pages[e.frame])],
       io |-> w.io \o <<Ev("Erase", w.s.pages[e.frame].page_id, 0, NoData)>>]

\* ------------------------------------------------------------- FetchPage
FetchFound_inreplacer(s, page_id, f) ==
  Result([s EXCEPT !.pages[f].pin_count = @ + 1],
         "page", page_id, f, NoFrame, <<>>)

\* lines 96-105: the page is cached
\* lines 98-104: the frame the lookup found is pinned
FetchFound(s, page_id, f) ==
  Result([s EXCEPT !.replacer = ReplacerPin(s.replacer, f),
                   !.pages[f].pin_count = @ + 1],
         "page", page_id, f, NoFrame, <<>>)

FetchHit(s, page_id) == FetchFound(s, page_id, s.page_table[page_id])

FetchInit_stale(page, page_id, data) ==
  [page EXCEPT !.pin_count = 1, !.is_dirty = FALSE, !.data = data]

\* lines 132-136: the in-memory page is initialised and its bytes are read
FetchInit(page, page_id, data) ==
  [page_id |-> page_id, pin_count |-> 1, is_dirty |-> FALSE, data |-> data]

\* lines 107-139: the page is not cached
FetchMiss(s, page_id, outbound_is_error) ==
  LET o == ObtainFrame(s) IN
  IF ~o.ok THEN Result(s, "null", page_id, NoFrame, NoFrame, <<>>)
  ELSE
    LET r == ReadPage(o.s.disk, page_id, o.s.pages[o.frame].data,
                      outbound_is_error)
        t == [o.s EXCEPT
                !.page_table = Put(o.s.page_table, page_id, o.frame),
                !.pages[o.frame] =
                   FetchInit(o.s.pages[o.frame], page_id, r.data)]
    IN Result(t, IF r.ok THEN "page" ELSE "io_error", page_id,
              IF r.ok THEN o.frame ELSE NoFrame, o.victim,
              o.io \o <<Ev("Read", page_id, 0, NoData)>>)

FetchPage(s, page_id, outbound_is_error) ==
  IF page_id \in DOMAIN s.page_table THEN FetchHit(s, page_id)
  ELSE FetchMiss(s, page_id, outbound_is_error)

\* ------------------------------------------------------------- UnpinPage
UnpinDirty_last(page, is_dirty) == is_dirty

\* line 152: the dirty flag is updated before the pin count is looked at
UnpinDirty(page, is_dirty) == page.is_dirty \/ is_dirty

UnpinReplacer_always(rp, frame_id, pin_count) == ReplacerUnpin(rp, frame_id)

\* lines 160-163: the frame enters the replacer when its pin count reaches zero
UnpinReplacer(rp, frame_id, pin_count) ==
  IF pin_count = 0 THEN ReplacerUnpin(rp, frame_id) ELSE rp

UnpinPage(s, page_id, is_dirty) ==
  IF page_id \notin DOMAIN s.page_table
    THEN Result(s, "false", page_id, NoFrame, NoFrame, <<>>)
  ELSE
    LET f == s.page_table[page_id]
        t == [s EXCEPT !.pages[f].is_dirty = UnpinDirty(s.pages[f], is_dirty)]
    IN
    IF t.pages[f].pin_count = 0
      THEN Result(t, "false", page_id, f, NoFrame, <<>>)
    ELSE
      LET n == t.pages[f].pin_count - 1 IN
      Result([t EXCEPT !.pages[f].pin_count = n,
                       !.replacer = UnpinReplacer(t.replacer, f, n)],
             "true", page_id, f, NoFrame, <<>>)

\* ------------------------------------------------------------- FlushPage
FlushPage(s, page_id) ==
  IF page_id \notin DOMAIN s.page_table
    THEN Result(s, "false", page_id, NoFrame, NoFrame, <<>>)
  ELSE
    LET f == s.page_table[page_id]
        w == FlushPageHelper(s, f)
    IN Result(w.s, "true", page_id, f, NoFrame, w.io)

\* --------------------------------------------------------------- NewPage
NoMoreSpace_freeonly(s) == Len(s.free_list) = 0

\* line 206: no more space
NoMoreSpace(s) == Len(s.free_list) = 0 /\ ReplacerSize(s.replacer) = 0

InitNewPage_stale(page, page_id) ==
  [page EXCEPT !.page_id = page_id, !.is_dirty = FALSE, !.pin_count = 1]

\* lines 231-236: the in-memory representation of the new page
InitNewPage(page, page_id) ==
  [page EXCEPT !.page_id = page_id, !.is_dirty = FALSE, !.pin_count = 1,
               !.data = ZeroData]

\* lines 210-238, with a the id the disk manager hands out
NewPageAt(s, a) ==
  LET alloc == <<Ev("Alloc", a.pid, 0, NoData)>>
      o == ObtainFrame([s EXCEPT !.next_page_id = a.next, !.freed_ids = a.freed])
  IN
  IF ~o.ok THEN Result(o.s, "null", a.pid, NoFrame, NoFrame, alloc)
  ELSE
    Result([o.s EXCEPT !.page_table = Put(o.s.page_table, a.pid, o.frame),
                       !.pages[o.frame] = InitNewPage(o.s.pages[o.frame], a.pid)],
           "page", a.pid, o.frame, o.victim, alloc \o o.io)

\* the possible outcomes of NewPage; pid is what *page_id holds afterwards
\* (INVALID_PAGE_ID standing for: not written)
NewPage(s) ==
  IF NoMoreSpace(s)
    THEN {Result(s, "null", INVALID_PAGE_ID, NoFrame, NoFrame, <<>>)}
    ELSE {NewPageAt(s, a) : a \in AllocatePage(s.next_page_id, s.freed_ids)}

\* ------------------------------------------------------------ DeletePage
StillInUse_always(page) == TRUE

StillInUse_never(page) == FALSE

\* line 253: check whether other one is still using
StillInUse(page) == page.pin_count > 0

DeletePage_checkfirst(s, page_id) ==
  LET dealloc == <<Ev("Dealloc", page_id, 0, NoData)>>
      t == [s EXCEPT !.freed_ids = DeallocatePage(s.freed_ids, page_id)]
  IN
  IF page_id \notin DOMAIN s.page_table
    THEN Result(t, "true", page_id, NoFrame, NoFrame, dealloc)
  ELSE
    LET f == s.page_table[page_id] IN
    IF StillInUse(s.pages[f])
      THEN Result(s, "false", page_id, f, NoFrame, <<>>)
    ELSE
      Result([t EXCEPT !.pages[f].page_id = INVALID_PAGE_ID,
                       !.page_table = Erase(t.page_table, page_id),
                       !.free_list = PushFront(t.free_list, f),
                       !.replacer = ReplacerPin(t.replacer, f)],
             "true", page_id, f, NoFrame, dealloc)

\* lines 241-265: the page id is deallocated, then the frame is looked up

DeletePage(s, page_id) ==
  LET dealloc == <<Ev("Dealloc", page_id, 0, NoData)>>
      t == [s EXCEPT !.freed_ids = DeallocatePage(s.freed_ids, page_id)]
  IN
  IF page_id \notin DOMAIN t.page_table
    THEN Result(t, "true", page_id, NoFrame, NoFrame, dealloc)
  ELSE
    LET f == t.page_table[page_id] IN
    IF StillInUse(t.pages[f])
      THEN Result(t, "false", page_id, f, NoFrame, dealloc)
    ELSE
      Result([t EXCEPT !.pages[f].page_id = INVALID_PAGE_ID,
                       !.page_table = Erase(t.page_table, page_id),
                       !.free_list = PushFront(t.free_list, f),
                       !.replacer = ReplacerPin(t.replacer, f)],
             "true", page_id, f, NoFrame, dealloc)

\* --------------------------------------------------------- FlushAllPages
\* the loop of lines 271-276 from frame i on; a frame is skipped when its
\* page id is not a key of the page table
RECURSIVE FlushFrom(_, _)
FlushFrom(s, i) ==
  IF i >= PoolSize THEN [s |-> s, io |-> <<>>]
  ELSE IF s.pages[i].page_id \notin DOMAIN s.page_table THEN FlushFrom(s, i + 1)
  ELSE
    LET w == FlushPageHelper(s, i)
        rest == FlushFrom(w.s, i + 1)
    IN [s |-> rest.s, io |-> w.io \o rest.io]

FlushAllPages(s) ==
  LET w == FlushFrom(s, 0) IN
  Result(w.s, "void", INVALID_PAGE_ID, NoFrame, NoFrame, w.io)

\* ------------------------------------------------------------- the state
InitPool ==
  /\ pages = [f \in FrameIds |->
                [page_id |-> INVALID_PAGE_ID, pin_count |-> 0,
                 is_dirty |-> FALSE, data |-> ZeroData]]
  /\ page_table = [p \in {} |-> NoFrame]
  /\ free_list = [i \in 1 .. PoolSize |-> i - 1]
  /\ replacer = <<>>
  /\ disk = [p \in PageIds |-> NoData]
  /\ next_page_id = 0
  /\ freed_ids = {}
  /\ log_manager \in BOOLEAN
  /\ live = {}
  /\ mod_count = 0
  /\ committed = [p \in PageIds |-> NoData]
  /\ touched = {}
  /\ latch = NoThread
  /\ pc = [t \in Threads |-> "idle"]
  /\ arg = [t \in Threads |-> INVALID_PAGE_ID]
  /\ it = [t \in Threads |-> NoFrame]
  /\ held = [p \in PageIds |-> 0]

\* no index has been asked for
NoIndex == [kind |-> "none", key_size |-> 0]
InitIndex ==
  /\ metadata = [type |-> "BPlusTreeType", key_size |-> 0]
  /\ index = NoIndex

\* the header of a page NewPage has just zero-filled
ZeroHeader ==
  [page_type |-> "INVALID_INDEX_PAGE", size |-> 0, max_size |-> 0,
   parent_page_id |-> 0]
InitHeader == hdr = ZeroHeader

\* a B+Tree with no page: root_page_id is INVALID_PAGE_ID
EmptyTree(leaf_max_size, internal_max_size) ==
  [root |-> INVALID_PAGE_ID, leaf_max |-> leaf_max_size,
   internal_max |-> internal_max_size, nodes |-> [i \in {} |-> 0]]
InitTree == tree = EmptyTree(2, 3)

\* the pages of the index the threads descend: a full binary tree of
\* CrabDepth levels, page 1 the root, pages 2n and 2n+1 the children of page n
CrabDepth == 3
CrabPages == 1 .. (2 ^ CrabDepth - 1)
NoPage == 0
IsCrabLeaf(n) == 2 * n > 2 ^ CrabDepth - 1

\* no thread is in an index operation and no page is latched
InitCrab ==
  /\ page_latch = [n \in CrabPages |-> [w |-> NoThread, r |-> {}]]
  /\ crab = [t \in Threads |->
               [pc |-> "idle", mode |-> "R", want |-> NoPage, held |-> {},
                done |-> FALSE]]

\* no thread is inside FlushPageHelper
NoFlush ==
  [pc |-> "idle", rest |-> <<>>, lsn |-> -1, flushed |-> -1, written |-> NoData]
InitFlush == flush = NoFlush

\* no arithmetic has been asked for
NoValue == [kind |-> "none", type |-> "INVALID", v |-> 0]
NoCalc == [lhs |-> NoValue, rhs |-> NoValue, op |-> "none", out |-> NoValue]
InitCalc == calc = NoCalc

\* a buffer pool nobody calls, without a log manager
IdlePool == InitPool /\ log_manager = FALSE

\* the builder, the page header and the index at rest
IdleIndex == InitIndex /\ InitHeader /\ InitTree

Init == InitPool /\ IdleIndex /\ InitCrab /\ InitFlush /\ InitCalc

\* the call's outcome becomes the state
Step(r) ==
  /\ pages' = r.s.pages
  /\ page_table' = r.s.page_table
  /\ free_list' = r.s.free_list
  /\ replacer' = r.s.replacer
  /\ disk' = r.s.disk
  /\ next_page_id' = r.s.next_page_id
  /\ freed_ids' = r.s.freed_ids
  /\ log_manager' = r.s.log_manager

\* what the callers know to be a page: NewPage adds, a successful delete removes
LiveAfter(r) ==
  live' = IF r.res = "page" THEN live \cup {r.pid}
          ELSE IF r.res = "true" THEN live \ {r.pid}
          ELSE live

\* a frame's pin count stays within the cap
PinRoom(page_id) ==
  page_id \in DOMAIN page_table => pages[page_table[page_id]].pin_count < MaxPin

DoFetchPage(page_id, outbound_is_error) ==
  /\ PinRoom(page_id)
  /\ Step(FetchPage(St, page_id, outbound_is_error))
  /\ UNCHANGED live

DoUnpinPage(page_id, is_dirty) ==
  /\ Step(UnpinPage(St, page_id, is_dirty))
  /\ UNCHANGED live

DoFlushPage(page_id) ==
  /\ Step(FlushPage(St, page_id))
  /\ UNCHANGED live

DoNewPage ==
  \E r \in NewPage(St) : Step(r) /\ LiveAfter(r)

DoDeletePage(page_id) ==
  LET r == DeletePage(St, page_id) IN Step(r) /\ LiveAfter(r)

DoFlushAllPages ==
  /\ Step(FlushAllPages(St))
  /\ UNCHANGED live

Next ==
  \/ \E p \in live, e \in BOOLEAN : DoFetchPage(p, e) /\ UNCHANGED <<hist, conc, aux>>
  \/ \E p \in live, d \in BOOLEAN : DoUnpinPage(p, d) /\ UNCHANGED <<hist, conc, aux>>
  \/ \E p \in live : DoFlushPage(p) /\ UNCHANGED <<hist, conc, aux>>
  \/ DoNewPage /\ UNCHANGED <<hist, conc, aux>>
  \/ \E p \in live : DoDeletePage(p) /\ UNCHANGED <<hist, conc, aux>>
  \/ DoFlushAllPages /\ UNCHANGED <<hist, conc, aux>>

\* the buffer pool under every sequence of calls; the page bytes stay as the pool
\* leaves them
Spec == Init /\ [][Next]_vars

\* ------------------------------------------- callers that change page bytes
\* the holder of a pin writes the page: new payload, and a new LSN in the header
WriteBytes(s, page_id, stamp) ==
  [s EXCEPT !.pages[s.page_table[page_id]].data = [lsn |-> stamp, body |-> stamp]]

Modify(page_id) ==
  /\ page_id \in DOMAIN page_table
  /\ pages[page_table[page_id]].pin_count > 0
  /\ mod_count < MaxMod
  /\ mod_count' = mod_count + 1
  /\ pages' = WriteBytes(St, page_id, mod_count + 1).pages
  /\ touched' = touched \cup {page_id}
  /\ UNCHANGED <<page_table, free_list, replacer, disk, next_page_id, freed_ids,
                 log_manager, live, committed>>

\* history of a call that unpins: a dirty unpin commits what its page was
\* written since the last one; a clean unpin that drops the last pin abandons it
HistUnpin(r, is_dirty) ==
  /\ UNCHANGED mod_count
  /\ IF r.res # "true" \/ r.pid \notin touched THEN UNCHANGED <<committed, touched>>
     ELSE IF is_dirty THEN
       /\ committed' = [committed EXCEPT ![r.pid] = r.s.pages[r.frame].data]
       /\ touched' = touched \ {r.pid}
     ELSE IF r.s.pages[r.frame].pin_count = 0 THEN
       /\ committed' = [committed EXCEPT ![r.pid] = NoData]
       /\ touched' = touched \ {r.pid}
     ELSE UNCHANGED <<committed, touched>>

\* history of NewPage and DeletePage: a new or deleted page has no committed bytes
HistReset(r) ==
  /\ UNCHANGED mod_count
  /\ IF r.res \in {"page", "true"} THEN
       /\ committed' = [committed EXCEPT ![r.pid] = NoData]
       /\ touched' = touched \ {r.pid}
     ELSE UNCHANGED <<committed, touched>>

InitData == Init /\ log_manager = TRUE

NextData ==
  \/ \E p \in live : DoFetchPage(p, FALSE) /\ UNCHANGED <<hist, conc, aux>>
  \/ \E p \in live :
       DoUnpinPage(p, TRUE) /\ HistUnpin(UnpinPage(St, p, TRUE), TRUE)
         /\ UNCHANGED <<conc, aux>>
  \/ \E r \in NewPage(St) :
       Step(r) /\ LiveAfter(r) /\ HistReset(r) /\ UNCHANGED <<conc, aux>>
  \/ \E p \in live :
       DoDeletePage(p) /\ HistReset(DeletePage(St, p)) /\ UNCHANGED <<conc, aux>>
  \/ DoFlushAllPages /\ UNCHANGED <<hist, conc, aux>>
  \/ \E p \in live : Modify(p) /\ UNCHANGED <<conc, aux>>

\* callers that fetch or create pages, write them, unpin them as dirty and
\* delete them, with a log manager configured
SpecData == InitData /\ [][NextData]_vars

\* ------------------------------------------- threads calling concurrently
TryLock_nomutex(l, t) == TRUE

\* std::lock_guard<std::mutex> guard(latch_): a thread gets past it only while
\* no thread holds the mutex
TryLock(l, t) == l = NoThread

\* pins of page r.pid the callers hold after a call: FetchPage and NewPage hand
\* one out with the page they return, a successful UnpinPage gives one back
HeldAfter(r, delta) ==
  held' = IF r.res \in {"page", "true"}
            THEN [held EXCEPT ![r.pid] = IF delta = 0 THEN 1 ELSE held[r.pid] + delta]
            ELSE held

\* line 94: FetchPage(page_id) takes the mutex
FetchLock(t, page_id) ==
  /\ pc[t] = "idle"
  /\ TryLock(latch, t)
  /\ PinRoom(page_id)
  /\ latch' = t
  /\ pc' = [pc EXCEPT ![t] = "locked"]
  /\ arg' = [arg EXCEPT ![t] = page_id]
  /\ UNCHANGED <<bpm, live, hist, it, held, aux>>

\* line 96: it = page_table_.find(page_id)
FetchLookup(t) ==
  /\ pc[t] = "locked"
  /\ it' = [it EXCEPT ![t] = IF arg[t] \in DOMAIN page_table
                               THEN page_table[arg[t]] ELSE NoFrame]
  /\ pc' = [pc EXCEPT ![t] = "looked"]
  /\ UNCHANGED <<bpm, live, hist, latch, arg, held, aux>>

\* lines 97-139: the rest of FetchPage with what the lookup found; the guard
\* goes out of scope on return
FetchFinish(t) ==
  /\ pc[t] = "looked"
  /\ LET r == IF it[t] # NoFrame THEN FetchFound(St, arg[t], it[t])
                                 ELSE FetchMiss(St, arg[t], FALSE)
     IN Step(r) /\ HeldAfter(r, 1)
  /\ latch' = NoThread
  /\ pc' = [pc EXCEPT ![t] = "idle"]
  /\ it' = [it EXCEPT ![t] = NoFrame]
  /\ arg' = [arg EXCEPT ![t] = INVALID_PAGE_ID]
  /\ UNCHANGED <<live, hist, aux>>

\* UnpinPage from lock to return
ConcUnpinPage(t, page_id, is_dirty) ==
  /\ pc[t] = "idle"
  /\ TryLock(latch, t)
  /\ DoUnpinPage(page_id, is_dirty)
  /\ HeldAfter(UnpinPage(St, page_id, is_dirty), -1)
  /\ UNCHANGED <<hist, latch, pc, arg, it, aux>>

\* NewPage from lock to return
ConcNewPage(t) ==
  /\ pc[t] = "idle"
  /\ TryLock(latch, t)
  /\ \E r \in NewPage(St) : Step(r) /\ LiveAfter(r) /\ HeldAfter(r, 0)
  /\ UNCHANGED <<hist, latch, pc, arg, it, aux>>

NextConc ==
  \/ \E t \in Threads, p \in live : FetchLock(t, p)
  \/ \E t \in Threads : FetchLookup(t)
  \/ \E t \in Threads : FetchFinish(t)
  \/ \E t \in Threads, p \in live, d \in BOOLEAN : ConcUnpinPage(t, p, d)
  \/ \E t \in Threads : ConcNewPage(t)

\* threads that fetch, unpin and create pages concurrently
SpecConc == Init /\ [][NextConc]_vars

\* ------------------------------- a flush while a pin holder writes the page
\* the flushing thread and the thread that writes page bytes
Flusher == 1
Writer == 2

\* the pool's calls are atomic under latch_: they run while no flush holds it
Unlocked == TryLock(latch, Writer)

\* lines 168-178: FlushPage takes latch_ and looks the page up; FlushPageHelper
\* is then run on its frame
FlushPageBegin(page_id) ==
  /\ TryLock(latch, Flusher)
  /\ flush.pc = "idle"
  /\ page_id \in DOMAIN page_table
  /\ latch' = Flusher
  /\ flush' = [NoFlush EXCEPT !.pc = "header", !.rest = <<page_table[page_id]>>]
  /\ UNCHANGED <<bpm, live, hist, pc, arg, it, held, metadata, index, hdr, tree,
                 page_latch, crab, calc>>

\* the frames the loop of lines 271-276 flushes, in its order
RECURSIVE FlushAllFrames(_, _)
FlushAllFrames(s, i) ==
  IF i = PoolSize THEN <<>>
  ELSE (IF s.pages[i].page_id \in DOMAIN s.page_table THEN <<i>> ELSE <<>>)
         \o FlushAllFrames(s, i + 1)

\* lines 267-277: FlushAllPages takes latch_ and runs FlushPageHelper on
\* every frame whose page id is in the page table
FlushAllPagesBegin ==
  /\ TryLock(latch, Flusher)
  /\ flush.pc = "idle"
  /\ FlushAllFrames(St, 0) # <<>>
  /\ latch' = Flusher
  /\ flush' = [NoFlush EXCEPT !.pc = "header", !.rest = FlushAllFrames(St, 0)]
  /\ UNCHANGED <<bpm, live, hist, pc, arg, it, held, metadata, index, hdr, tree,
                 page_latch, crab, calc>>

\* lines 187-190: header->GetLSN() reads the LSN out of the page bytes
FlushReadHeader ==
  /\ flush.pc = "header"
  /\ flush' = [flush EXCEPT
                 !.pc = IF log_manager THEN "log" ELSE "write",
                 !.lsn = IF log_manager THEN GetLSN(pages[Head(flush.rest)].data)
                         ELSE -1,
                 !.flushed = -1, !.written = NoData]
  /\ UNCHANGED <<bpm, live, hist, conc, metadata, index, hdr, tree, page_latch,
                 crab, calc>>

\* line 194: log_manager_->Flush(lsn, true) with the LSN that was read
FlushForceLog ==
  /\ flush.pc = "log"
  /\ flush' = [flush EXCEPT !.pc = "write", !.flushed = flush.lsn]
  /\ UNCHANGED <<bpm, live, hist, conc, metadata, index, hdr, tree, page_latch,
                 crab, calc>>

\* lines 198-199: WritePage is handed the bytes the page holds now, and the
\* dirty flag is cleared; after the last frame the call returns and unlocks
FlushWritePage ==
  /\ flush.pc = "write"
  /\ LET f == Head(flush.rest) IN
     /\ disk' = WritePage(disk, pages[f].page_id, pages[f].data)
     /\ pages' = [pages EXCEPT ![f].is_dirty = FALSE]
     /\ flush' = [flush EXCEPT
                    !.written = pages[f].data,
                    !.rest = Tail(flush.rest),
                    !.pc = IF Tail(flush.rest) = <<>> THEN "idle" ELSE "header"]
     /\ latch' = IF Tail(flush.rest) = <<>> THEN NoThread ELSE latch
  /\ UNCHANGED <<page_table, free_list, replacer, next_page_id, freed_ids,
                 log_manager, live, hist, pc, arg, it, held, metadata, index,
                 hdr, tree, page_latch, crab, calc>>

\* the holder of a pin, under the page's write latch, writes a newer LSN into
\* the header of the page ...
WriteHeader(page_id) ==
  /\ page_id \in DOMAIN page_table
  /\ pages[page_table[page_id]].pin_count > 0
  /\ pages[page_table[page_id]].data.lsn = pages[page_table[page_id]].data.body
  /\ mod_count < MaxMod
  /\ mod_count' = mod_count + 1
  /\ pages' = [pages EXCEPT ![page_table[page_id]].data.lsn = mod_count + 1]
  /\ UNCHANGED <<page_table, free_list, replacer, disk, next_page_id, freed_ids,
                 log_manager, live, committed, touched, conc, aux>>

\* ... and then the payload that goes with it
WriteBody(page_id) ==
  /\ page_id \in DOMAIN page_table
  /\ pages[page_table[page_id]].pin_count > 0
  /\ pages[page_table[page_id]].data.lsn # pages[page_table[page_id]].data.body
  /\ pages' = [pages EXCEPT ![page_table[page_id]].data.body =
                               pages[page_table[page_id]].data.lsn]
  /\ UNCHANGED <<page_table, free_list, replacer, disk, next_page_id, freed_ids,
                 log_manager, live, hist, conc, aux>>

NextFlush ==
  \/ Unlocked /\ DoNewPage /\ UNCHANGED <<hist, conc, aux>>
  \/ \E p \in live, e \in BOOLEAN :
       Unlocked /\ DoFetchPage(p, e) /\ UNCHANGED <<hist, conc, aux>>
  \/ \E p \in live, d \in BOOLEAN :
       Unlocked /\ DoUnpinPage(p, d) /\ UNCHANGED <<hist, conc, aux>>
  \/ \E p \in live : FlushPageBegin(p)
  \/ FlushAllPagesBegin
  \/ FlushReadHeader
  \/ FlushForceLog
  \/ FlushWritePage
  \/ \E p \in live : WriteHeader(p)
  \/ \E p \in live : WriteBody(p)

\* one thread flushes while the pin holders write their pages, with a log
\* manager configured
SpecFlush == InitData /\ [][NextFlush]_vars

\* ------------------------------------------------------ IndexBuilder::Build
\* largest key size handed to the builder
MaxKeySize == 65
IndexTypes == {"BPlusTreeType", "HashTableType"}

KeySizeCases_nowide == {4, 8, 16, 32}

\* lines 23-42: the case labels of the switch on GetKeySize()
KeySizeCases == {4, 8, 16, 32, 64}

\* lines 19-49: BPlusTreeIndex<GenericKey<n>, RID, GenericComparator<n>> for a
\* key size n among the cases, else a NotImplemented exception
Build(md) ==
  IF md.type = "BPlusTreeType" THEN
    IF md.key_size \in KeySizeCases
      THEN [kind |-> "BPlusTreeIndex", key_size |-> md.key_size]
      ELSE [kind |-> "NotImplemented", key_size |-> 0]
  ELSE [kind |-> "NotImplemented", key_size |-> 0]

InitBuild ==
  /\ IdlePool
  /\ InitHeader
  /\ InitTree
  /\ InitCrab
  /\ InitFlush
  /\ InitCalc
  /\ metadata \in [type : IndexTypes, key_size : 0 .. MaxKeySize]
  /\ index = NoIndex

DoBuild ==
  /\ index = NoIndex
  /\ index' = Build(metadata)
  /\ UNCHANGED <<bpm, live, hist, conc, metadata, hdr, tree, page_latch, crab, flush, calc>>

NextBuild == DoBuild

\* the index builder on every index type and key size
SpecBuild == InitBuild /\ [][NextBuild]_vars

\* ------------------------------------------------------------ BPlusTreePage
\* largest max_size_ given to a page
MaxMaxSize == 8
IndexPageTypes == {"INVALID_INDEX_PAGE", "LEAF_PAGE", "INTERNAL_PAGE"}

\* b_plus_tree_page.h lines 52-54
IsLeafPage(h) == h.page_type = "LEAF_PAGE"

\* lines 62-64
IsRootPage(h) == h.parent_page_id = INVALID_PAGE_ID

\* lines 71-73, 89-91, 98-100, 113-115, 134-136
SetPageType(h, page_type) == [h EXCEPT !.page_type = page_type]
SetSize(h, size) == [h EXCEPT !.size = size]
IncreaseSize(h, amount) == [h EXCEPT !.size = @ + amount]
SetMaxSize(h, size) == [h EXCEPT !.max_size = size]
SetParentPageId(h, parent_page_id) == [h EXCEPT !.parent_page_id = parent_page_id]

\* lines 80-82, 109-111
GetSize(h) == h.size
GetMaxSize_less(h) == h.max_size - 1

GetMaxSize(h) == h.max_size

GetMinSize_ceil(h) ==
  IF IsLeafPage(h) THEN h.max_size \div 2 ELSE (h.max_size + 2) \div 2

GetMinSize_half(h) == h.max_size \div 2

GetMinSize_up(h) == (h.max_size + 1) \div 2

\* lines 123-128: int division of non-negative ints
GetMinSize(h) ==
  IF IsLeafPage(h) THEN h.max_size \div 2 ELSE (h.max_size + 1) \div 2

\* the setters applied to one page header
HeaderOp(h) ==
  /\ hdr' = h
  /\ UNCHANGED <<bpm, live, hist, conc, metadata, index, tree, page_latch, crab, flush, calc>>

NextHeader ==
  \/ \E ty \in IndexPageTypes : HeaderOp(SetPageType(hdr, ty))
  \/ \E n \in 0 .. MaxMaxSize : HeaderOp(SetSize(hdr, n))
  \/ \E a \in {-1, 1} :
       /\ hdr.size + a \in 0 .. MaxMaxSize
       /\ HeaderOp(IncreaseSize(hdr, a))
  \/ \E n \in 1 .. MaxMaxSize : HeaderOp(SetMaxSize(hdr, n))
  \/ \E q \in {INVALID_PAGE_ID} \cup PageIds : HeaderOp(SetParentPageId(hdr, q))

\* one page header under every sequence of its setters
InitPage == IdlePool /\ IdleIndex /\ InitCrab /\ InitFlush /\ InitCalc

SpecHeader == InitPage /\ [][NextHeader]_vars

\* ------------------------------------------------------------------ B+Tree
\* keys are 1 .. MaxKey
MaxKey == 6
\* leaf_max_size is 2 .. MaxLeafMax, internal_max_size is 3 .. MaxInternalMax
MaxLeafMax == 3
MaxInternalMax == 4
\* record ids are 1 .. NumRids
NumRids == 1
Keys == 1 .. MaxKey
Rids == 1 .. NumRids

\* a slot of a page: (key, rid) in a leaf, (key, child_page_id) in an internal
\* page, where the key of slot 1 is unused
Slot(key, val) == [key |-> key, val |-> val]

\* a page with its header; the header's size_ is the number of slots
NewNode(page_type, max_size, parent_page_id, slots, next) ==
  [hdr |-> SetSize(SetMaxSize(SetParentPageId(SetPageType(ZeroHeader, page_type),
                                              parent_page_id), max_size),
                   Len(slots)),
   slots |-> slots, next |-> next]
WithSlots(n, slots) == [n EXCEPT !.slots = slots, !.hdr = SetSize(@, Len(slots))]
WithParent(n, parent_page_id) ==
  [n EXCEPT !.hdr = SetParentPageId(@, parent_page_id)]

\* the page id a new page of the tree gets: the smallest one not in use
NewId(nodes) ==
  CHOOSE i \in 0 .. Cardinality(DOMAIN nodes) :
    i \notin DOMAIN nodes /\ \A j \in 0 .. (i - 1) : j \in DOMAIN nodes

AddNode(nodes, id, n) == [i \in DOMAIN nodes \cup {id} |-> IF i = id THEN n ELSE nodes[i]]
DropNode(nodes, id) == [i \in DOMAIN nodes \ {id} |-> nodes[i]]

\* the pages cs get parent_page_id
Reparent(nodes, cs, parent_page_id) ==
  [i \in DOMAIN nodes |->
     IF i \in cs THEN WithParent(nodes[i], parent_page_id) ELSE nodes[i]]

InsertAt(s, i, x) == SubSeq(s, 1, i) \o <<x>> \o SubSeq(s, i + 1, Len(s))
RemoveAt(s, i) == SubSeq(s, 1, i - 1) \o SubSeq(s, i + 1, Len(s))
Vals(slots) == {slots[i].val : i \in DOMAIN slots}

\* the slot of an internal page whose subtree holds key: the last slot i with
\* i = 1 or slot[i].key <= key
ChildIndex(slots, key) ==
  CHOOSE i \in DOMAIN slots :
    /\ i = 1 \/ slots[i].key <= key
    /\ \A j \in DOMAIN slots : (j > i) => slots[j].key > key

RECURSIVE FindLeaf(_, _, _)
FindLeaf(nodes, id, key) ==
  IF IsLeafPage(nodes[id].hdr) THEN id
  ELSE FindLeaf(nodes, nodes[id].slots[ChildIndex(nodes[id].slots, key)].val, key)

\* the position of page id among the slots of its parent
IndexIn(slots, id) == CHOOSE i \in DOMAIN slots : slots[i].val = id

LeafPos_before(slots, key) == Cardinality({i \in DOMAIN slots : slots[i].key < key})

\* a new entry goes right after the existing entries with a key <= its key
LeafPos(slots, key) == Cardinality({i \in DOMAIN slots : slots[i].key <= key})

\* the number of slots that stay in a page that splits with n slots; the
\* upper half, n div 2 slots, moves to the new page
Stay(n) == n - (n \div 2)

\* the separator key and the new right page go into the parent of page left;
\* a root that splits gets a new internal root above it, an internal parent
\* that exceeds its max_size splits in turn and lifts its middle key
RECURSIVE InsertIntoParent(_, _, _, _)
InsertIntoParent(T, left, key, right) ==
  IF IsRootPage(T.nodes[left].hdr) THEN
    LET id == NewId(T.nodes)
        r == NewNode("INTERNAL_PAGE", T.internal_max, INVALID_PAGE_ID,
                     <<Slot(0, left), Slot(key, right)>>, INVALID_PAGE_ID)
    IN [T EXCEPT !.root = id,
                 !.nodes = Reparent(AddNode(T.nodes, id, r), {left, right}, id)]
  ELSE
    LET pid == T.nodes[left].hdr.parent_page_id
        par == T.nodes[pid]
        slots == InsertAt(par.slots, IndexIn(par.slots, left), Slot(key, right))
        n1 == [Reparent(T.nodes, {right}, pid) EXCEPT ![pid] = WithSlots(par, slots)]
    IN
    IF Len(slots) <= GetMaxSize(par.hdr) THEN [T EXCEPT !.nodes = n1]
    ELSE
      LET id == NewId(n1)
          k == Stay(Len(slots))
          up == SubSeq(slots, k + 1, Len(slots))
          lifted == up[1].key
          rn == NewNode("INTERNAL_PAGE", T.internal_max, par.hdr.parent_page_id,
                        <<Slot(0, up[1].val)>> \o Tail(up), INVALID_PAGE_ID)
          n2 == [n1 EXCEPT ![pid] = WithSlots(par, SubSeq(slots, 1, k))]
          n3 == Reparent(AddNode(n2, id, rn), Vals(up), id)
      IN InsertIntoParent([T EXCEPT !.nodes = n3], pid, lifted, id)

\* a leaf that exceeds its max_size: the upper half moves to a new right leaf,
\* which is linked after it; the first key of the right leaf is the separator
SplitLeaf(T, id) ==
  LET leaf == T.nodes[id]
      k == Stay(Len(leaf.slots))
      up == SubSeq(leaf.slots, k + 1, Len(leaf.slots))
      nid == NewId(T.nodes)
      rn == NewNode("LEAF_PAGE", T.leaf_max, leaf.hdr.parent_page_id, up, leaf.next)
      ln == [WithSlots(leaf, SubSeq(leaf.slots, 1, k)) EXCEPT !.next = nid]
  IN InsertIntoParent(
       [T EXCEPT !.nodes = AddNode([T.nodes EXCEPT ![id] = ln], nid, rn)],
       id, up[1].key, nid)

\* InsertEntry(key, rid)
InsertEntry(T, key, rid) ==
  IF T.root = INVALID_PAGE_ID THEN
    LET id == NewId(T.nodes) IN
    [T EXCEPT !.root = id,
              !.nodes = AddNode(T.nodes, id,
                          NewNode("LEAF_PAGE", T.leaf_max, INVALID_PAGE_ID,
                                  <<Slot(key, rid)>>, INVALID_PAGE_ID))]
  ELSE
    LET id == FindLeaf(T.nodes, T.root, key)
        leaf == T.nodes[id]
        slots == InsertAt(leaf.slots, LeafPos(leaf.slots, key), Slot(key, rid))
        T1 == [T EXCEPT !.nodes[id] = WithSlots(leaf, slots)]
    IN IF Len(slots) > GetMaxSize(leaf.hdr) THEN SplitLeaf(T1, id) ELSE T1

\* a page has spare slots when it can give one away and stay at its min size
HasSpare(n) == GetSize(n.hdr) > GetMinSize(n.hdr)

\* the root became too small: an internal root with a sole child hands the root
\* to that child, an empty root leaf leaves an empty tree
AdjustRoot(T, id) ==
  LET n == T.nodes[id] IN
  IF ~IsLeafPage(n.hdr) /\ GetSize(n.hdr) = 1 THEN
    LET c == n.slots[1].val IN
    [T EXCEPT !.root = c,
              !.nodes = Reparent(DropNode(T.nodes, id), {c}, INVALID_PAGE_ID)]
  ELSE IF IsLeafPage(n.hdr) /\ GetSize(n.hdr) = 0 THEN
    [T EXCEPT !.root = INVALID_PAGE_ID, !.nodes = DropNode(T.nodes, id)]
  ELSE T

\* page id borrows the last slot of its left sibling l; sep is the slot of the
\* parent pid that separates them
BorrowFromLeft(T, pid, sep, l, id) ==
  LET par == T.nodes[pid]
      ln == T.nodes[l]
      n == T.nodes[id]
      moved == ln.slots[Len(ln.slots)]
      lslots == SubSeq(ln.slots, 1, Len(ln.slots) - 1)
      nslots == IF IsLeafPage(n.hdr) THEN <<moved>> \o n.slots
                ELSE <<Slot(0, moved.val), Slot(par.slots[sep].key, n.slots[1].val)>>
                       \o Tail(n.slots)
      n1 == [T.nodes EXCEPT ![l] = WithSlots(ln, lslots),
                            ![id] = WithSlots(n, nslots),
                            ![pid] = WithSlots(par, [par.slots EXCEPT ![sep].key = moved.key])]
  IN [T EXCEPT !.nodes = IF IsLeafPage(n.hdr) THEN n1 ELSE Reparent(n1, {moved.val}, id)]

\* page id borrows the first slot of its right sibling r
BorrowFromRight(T, pid, sep, id, r) ==
  LET par == T.nodes[pid]
      rn == T.nodes[r]
      n == T.nodes[id]
      moved == rn.slots[1]
      rslots == IF IsLeafPage(n.hdr) THEN Tail(rn.slots)
                ELSE <<Slot(0, rn.slots[2].val)>> \o Tail(Tail(rn.slots))
      nslots == IF IsLeafPage(n.hdr) THEN Append(n.slots, moved)
                ELSE Append(n.slots, Slot(par.slots[sep].key, moved.val))
      n1 == [T.nodes EXCEPT ![r] = WithSlots(rn, rslots),
                            ![id] = WithSlots(n, nslots),
                            ![pid] = WithSlots(par, [par.slots EXCEPT ![sep].key = rn.slots[2].key])]
  IN [T EXCEPT !.nodes = IF IsLeafPage(n.hdr) THEN n1 ELSE Reparent(n1, {moved.val}, id)]

\* page r is merged into its left sibling l and freed; the parent loses the
\* separator slot sep; a leaf is spliced out of the chain
Merge(T, pid, sep, l, r) ==
  LET par == T.nodes[pid]
      ln == T.nodes[l]
      rn == T.nodes[r]
      rslots == IF IsLeafPage(rn.hdr) THEN rn.slots
                ELSE <<Slot(par.slots[sep].key, rn.slots[1].val)>> \o Tail(rn.slots)
      merged == [WithSlots(ln, ln.slots \o rslots) EXCEPT !.next = rn.next]
      n1 == [T.nodes EXCEPT ![l] = merged,
                            ![pid] = WithSlots(par, RemoveAt(par.slots, sep))]
      n2 == IF IsLeafPage(rn.hdr) THEN n1 ELSE Reparent(n1, Vals(rn.slots), l)
  IN [T EXCEPT !.nodes = DropNode(n2, r)]

\* page id fell below its min size: redistribute with the left or the right
\* sibling, whichever has spare; otherwise merge with a sibling, remove the
\* separator from the parent and propagate the underflow upward
RECURSIVE CoalesceOrRedistribute(_, _)
CoalesceOrRedistribute(T, id) ==
  LET n == T.nodes[id] IN
  IF IsRootPage(n.hdr) THEN AdjustRoot(T, id)
  ELSE
    LET pid == n.hdr.parent_page_id
        par == T.nodes[pid]
        i == IndexIn(par.slots, id)
        hasL == i > 1
        hasR == i < Len(par.slots)
    IN
    IF hasL /\ HasSpare(T.nodes[par.slots[i - 1].val])
      THEN BorrowFromLeft(T, pid, i, par.slots[i - 1].val, id)
    ELSE IF hasR /\ HasSpare(T.nodes[par.slots[i + 1].val])
      THEN BorrowFromRight(T, pid, i + 1, id, par.slots[i + 1].val)
    ELSE
      LET M == IF hasL THEN Merge(T, pid, i, par.slots[i - 1].val, id)
                       ELSE Merge(T, pid, i + 1, id, par.slots[i + 1].val)
          p1 == M.nodes[pid]
      IN
      IF IsRootPage(p1.hdr)
        THEN (IF GetSize(p1.hdr) < 2 THEN AdjustRoot(M, pid) ELSE M)
      ELSE IF GetSize(p1.hdr) < GetMinSize(p1.hdr)
        THEN CoalesceOrRedistribute(M, pid)
      ELSE M

\* the slots of a leaf that hold (key, rid)
Matches(slots, key, rid) == {i \in DOMAIN slots : slots[i] = Slot(key, rid)}

\* DeleteEntry(key, rid)
DeleteEntry(T, key, rid) ==
  IF T.root = INVALID_PAGE_ID THEN T
  ELSE
    LET id == FindLeaf(T.nodes, T.root, key)
        leaf == T.nodes[id]
        m == Matches(leaf.slots, key, rid)
    IN
    IF m = {} THEN T
    ELSE
      LET i == CHOOSE j \in m : \A q \in m : j <= q
          T1 == [T EXCEPT !.nodes[id] = WithSlots(leaf, RemoveAt(leaf.slots, i))]
          n == T1.nodes[id]
      IN
      IF IsRootPage(n.hdr) THEN AdjustRoot(T1, id)
      ELSE IF GetSize(n.hdr) < GetMinSize(n.hdr) THEN CoalesceOrRedistribute(T1, id)
      ELSE T1

\* ScanKey(key): the rids under key along the leaf the descent lands on
ScanKey(T, key) ==
  IF T.root = INVALID_PAGE_ID THEN <<>>
  ELSE
    LET s == SelectSeq(T.nodes[FindLeaf(T.nodes, T.root, key)].slots,
                       LAMBDA e : e.key = key)
    IN [i \in DOMAIN s |-> s[i].val]

\* every (key, rid) the tree holds
Entries(T) ==
  UNION {{<<T.nodes[i].slots[j].key, T.nodes[i].slots[j].val>> :
            j \in DOMAIN T.nodes[i].slots} :
         i \in {q \in DOMAIN T.nodes : IsLeafPage(T.nodes[q].hdr)}}

InitBTree ==
  /\ IdlePool
  /\ InitIndex
  /\ InitHeader
  /\ InitCrab
  /\ InitFlush
  /\ InitCalc
  /\ \E lm \in 2 .. MaxLeafMax, im \in 3 .. MaxInternalMax :
       tree = EmptyTree(lm, im)

TreeOp(T) ==
  /\ tree' = T
  /\ UNCHANGED <<bpm, live, hist, conc, metadata, index, hdr, page_latch, crab, flush, calc>>

\* an entry is inserted once; an entry that is there is deleted
DoInsertEntry(key, rid) ==
  /\ <<key, rid>> \notin Entries(tree)
  /\ TreeOp(InsertEntry(tree, key, rid))

DoDeleteEntry(key, rid) ==
  /\ <<key, rid>> \in Entries(tree)
  /\ TreeOp(DeleteEntry(tree, key, rid))

NextBTree ==
  \/ \E k \in Keys, rid \in Rids : DoInsertEntry(k, rid)
  \/ \E k \in Keys, rid \in Rids : DoDeleteEntry(k, rid)

\* the B+Tree under every sequence of inserts and deletes
SpecBTree == InitBTree /\ [][NextBTree]_vars

\* --------------------------------------------- a non-unique B+Tree index
\* record ids of the entries that share a key are 1 .. NumDupRids
NumDupRids == 3
DupKeys == (MaxKey - 1) .. MaxKey
DupRids == 1 .. NumDupRids

NextDup ==
  \/ \E k \in DupKeys, rid \in DupRids : DoInsertEntry(k, rid)
  \/ \E k \in DupKeys, rid \in DupRids : DoDeleteEntry(k, rid)

\* the B+Tree under inserts and deletes of entries with duplicate keys
SpecDup == InitBTree /\ [][NextDup]_vars

\* ------------------------------------------- index operations that crab
FetchLatches_page(page_id) == {page_id}

\* buffer_pool_manager.cpp lines 93-140 (and every other operation): the only
\* lock a buffer pool operation takes is latch_; the page latches it takes
\* while holding it are none
FetchLatches(page_id) == {}

Unlatched(pl, n) == pl[n].w = NoThread /\ pl[n].r = {}
CanLatch(pl, n, mode) == IF mode = "W" THEN Unlatched(pl, n) ELSE pl[n].w = NoThread
Latch(pl, n, t, mode) ==
  IF mode = "W" THEN [pl EXCEPT ![n].w = t] ELSE [pl EXCEPT ![n].r = @ \cup {t}]
Unlatch(pl, S, t) ==
  [n \in CrabPages |->
     IF n \in S THEN [w |-> IF pl[n].w = t THEN NoThread ELSE pl[n].w,
                      r |-> pl[n].r \ {t}]
     ELSE pl[n]]

\* what an index operation leaves alone
crabRest == <<bpm, live, hist, pc, arg, it, held, metadata, index, hdr, tree, flush, calc>>
CrabAt(t, l) == crab[t].pc = l
CrabGo(t, c) == crab' = [crab EXCEPT ![t] = c]

\* ScanKey (mode R) or InsertEntry/DeleteEntry (mode W) starts at the root
CrabStart(t, mode) ==
  /\ CrabAt(t, "idle")
  /\ CrabGo(t, [pc |-> "fetch", mode |-> mode, want |-> 1, held |-> {}, done |-> FALSE])
  /\ UNCHANGED <<crabRest, latch, page_latch>>

\* FetchPage(want): line 94, the manager mutex
CrabFetchLock(t) ==
  /\ CrabAt(t, "fetch")
  /\ TryLock(latch, t)
  /\ latch' = t
  /\ CrabGo(t, [crab[t] EXCEPT !.pc = "infetch"])
  /\ UNCHANGED <<crabRest, page_latch>>

\* FetchPage(want) returns a page (ok) or null; on null the operation gives up
\* with OutOfMemory after releasing the latches it holds
CrabFetchReturn(t, ok) ==
  /\ CrabAt(t, "infetch")
  /\ \A n \in FetchLatches(crab[t].want) : Unlatched(page_latch, n)
  /\ latch' = NoThread
  /\ IF ok THEN
       /\ CrabGo(t, [crab[t] EXCEPT !.pc = "latch"])
       /\ UNCHANGED page_latch
     ELSE
       /\ page_latch' = Unlatch(page_latch, crab[t].held, t)
       /\ CrabGo(t, [crab[t] EXCEPT !.pc = IF crab[t].held = {} THEN "idle" ELSE "unpin",
                                    !.held = {}, !.want = NoPage, !.done = TRUE])
  /\ UNCHANGED crabRest

\* the caller latches the fetched page; a reader then releases the parent, a
\* writer releases its ancestors when the page is safe
CrabLatch(t, safe) ==
  /\ CrabAt(t, "latch")
  /\ CanLatch(page_latch, crab[t].want, crab[t].mode)
  /\ LET rel == IF crab[t].mode = "R" \/ safe THEN crab[t].held ELSE {} IN
     /\ page_latch' = Unlatch(Latch(page_latch, crab[t].want, t, crab[t].mode), rel, t)
     /\ CrabGo(t, [crab[t] EXCEPT !.pc = IF rel = {} THEN "next" ELSE "unpin",
                                  !.held = (@ \ rel) \cup {crab[t].want}])
  /\ UNCHANGED <<crabRest, latch>>

\* UnpinPage of the pages just unlatched: the manager mutex again
CrabUnpinLock(t) ==
  /\ CrabAt(t, "unpin")
  /\ TryLock(latch, t)
  /\ latch' = t
  /\ CrabGo(t, [crab[t] EXCEPT !.pc = "inunpin"])
  /\ UNCHANGED <<crabRest, page_latch>>

CrabUnpinReturn(t) ==
  /\ CrabAt(t, "inunpin")
  /\ latch' = NoThread
  /\ CrabGo(t, [crab[t] EXCEPT !.pc = IF crab[t].done THEN "idle" ELSE "next"])
  /\ UNCHANGED <<crabRest, page_latch>>

\* below the latched page: one of its children
CrabDescend(t, child) ==
  /\ CrabAt(t, "next")
  /\ ~IsCrabLeaf(crab[t].want)
  /\ child \in {2 * crab[t].want, 2 * crab[t].want + 1}
  /\ CrabGo(t, [crab[t] EXCEPT !.pc = "fetch", !.want = child])
  /\ UNCHANGED <<crabRest, latch, page_latch>>

\* at the leaf the operation completes and releases every latch it holds
CrabFinish(t) ==
  /\ CrabAt(t, "next")
  /\ IsCrabLeaf(crab[t].want)
  /\ page_latch' = Unlatch(page_latch, crab[t].held, t)
  /\ CrabGo(t, [crab[t] EXCEPT !.pc = "unpin", !.held = {}, !.want = NoPage,
                               !.done = TRUE])
  /\ UNCHANGED <<crabRest, latch>>

NextCrab ==
  \/ \E t \in Threads, mode \in {"R", "W"} : CrabStart(t, mode)
  \/ \E t \in Threads : CrabFetchLock(t)
  \/ \E t \in Threads, ok \in BOOLEAN : CrabFetchReturn(t, ok)
  \/ \E t \in Threads, safe \in BOOLEAN : CrabLatch(t, safe)
  \/ \E t \in Threads : CrabUnpinLock(t)
  \/ \E t \in Threads : CrabUnpinReturn(t)
  \/ \E t \in Threads, c \in CrabPages : CrabDescend(t, c)
  \/ \E t \in Threads : CrabFinish(t)

\* threads running index operations over the buffer pool
InitThreads == IdlePool /\ IdleIndex /\ InitCrab /\ InitFlush /\ InitCalc

SpecCrab == InitThreads /\ [][NextCrab]_vars

\* ------------------------------------------------- integer arithmetic
\* the four integer types and their sizes in bytes: int8_t, int16_t, int32_t,
\* int64_t; a byte is ByteBits bits wide here, which keeps the sizes 1 : 2 : 4 : 8
ByteBits == 2
TypeIds == <<"TINYINT", "SMALLINT", "INTEGER", "BIGINT">>
IntegerTypes == Range(TypeIds)
GetTypeSize(t) == 2 ^ ((CHOOSE i \in DOMAIN TypeIds : TypeIds[i] = t) - 1)
Bits(t) == GetTypeSize(t) * ByteBits
MinOf(bits) == -(2 ^ (bits - 1))
MaxOf(bits) == 2 ^ (bits - 1) - 1
Fits(n, bits) == MinOf(bits) <= n /\ n <= MaxOf(bits)

\* static_cast to a signed type of that width: the value modulo 2^bits
Wrap(n, bits) == ((n - MinOf(bits)) % (2 ^ bits)) + MinOf(bits)

\* the type x op y is computed in: both operands are promoted to int, or to
\* the 8-byte type when one of them has it
Promoted(t1, t2) ==
  IF Bits(t1) > Bits("INTEGER") \/ Bits(t2) > Bits("INTEGER") THEN Bits("BIGINT")
  ELSE Bits("INTEGER")

\* Value(type_id, i), and the exceptions of exception.h
IntValue(t, n) == [kind |-> "value", type |-> t, v |-> n]
Throw(kind) == [kind |-> kind, type |-> "INVALID", v |-> 0]

\* lines 385-397 (414-426, 440-452): the result has the type of the operand
\* that is not narrower, the left one on equal width; clash1 and clash2 are the
\* sign tests made on the result cast to the left and to the right type
Checked(lhs, rhs, e, clash1, clash2) ==
  LET r1 == Wrap(e, Bits(lhs.type))
      r2 == Wrap(e, Bits(rhs.type))
  IN
  IF e # r1 /\ e # r2 THEN Throw("OutOfRange")
  ELSE IF Bits(lhs.type) >= Bits(rhs.type) THEN
    IF clash1 THEN Throw("OutOfRange") ELSE IntValue(lhs.type, r1)
  ELSE
    IF clash2 THEN Throw("OutOfRange") ELSE IntValue(rhs.type, r2)

\* what a build makes of x op y when the exact result n does not fit the
\* promoted type (signed overflow is undefined): the value wrapped to that type
\* goes through the checks, or the sign tests, which cannot be true without an
\* overflow, are compiled away and the wrapped value is returned
Wider(lhs, rhs) == IF Bits(lhs.type) >= Bits(rhs.type) THEN lhs.type ELSE rhs.type
Unchecked(lhs, rhs, e) ==
  LET r == Wrap(e, Bits(Wider(lhs, rhs))) IN
  IF e # Wrap(e, Bits(lhs.type)) /\ e # Wrap(e, Bits(rhs.type))
    THEN Throw("OutOfRange")
    ELSE IntValue(Wider(lhs, rhs), r)

\* lines 373-398
AddChecked(lhs, rhs, e) ==
  LET x == lhs.v
      y == rhs.v
      sum1 == Wrap(e, Bits(lhs.type))
      sum2 == Wrap(e, Bits(rhs.type))
  IN Checked(lhs, rhs, e,
             (x > 0 /\ y > 0 /\ sum1 < 0) \/ (x < 0 /\ y < 0 /\ sum1 > 0),
             (x > 0 /\ y > 0 /\ sum2 < 0) \/ (x < 0 /\ y < 0 /\ sum2 > 0))

AddValue(lhs, rhs) ==
  LET n == lhs.v + rhs.v
      p == Promoted(lhs.type, rhs.type)
  IN IF Fits(n, p) THEN {AddChecked(lhs, rhs, n)}
     ELSE {AddChecked(lhs, rhs, Wrap(n, p)), Unchecked(lhs, rhs, Wrap(n, p))}

\* lines 400-427
SubtractChecked(lhs, rhs, e) ==
  LET x == lhs.v
      y == rhs.v
      diff1 == Wrap(e, Bits(lhs.type))
      diff2 == Wrap(e, Bits(rhs.type))
  IN Checked(lhs, rhs, e,
             (x > 0 /\ y < 0 /\ diff1 < 0) \/ (x < 0 /\ y > 0 /\ diff1 > 0),
             (x > 0 /\ y < 0 /\ diff2 < 0) \/ (x < 0 /\ y > 0 /\ diff2 > 0))

SubtractValue(lhs, rhs) ==
  LET n == lhs.v - rhs.v
      p == Promoted(lhs.type, rhs.type)
  IN IF Fits(n, p) THEN {SubtractChecked(lhs, rhs, n)}
     ELSE {SubtractChecked(lhs, rhs, Wrap(n, p)), Unchecked(lhs, rhs, Wrap(n, p))}

\* lines 429-453: the sign tests are those of SubtractValue
MultiplyChecked(lhs, rhs, e) ==
  LET x == lhs.v
      y == rhs.v
      prod1 == Wrap(e, Bits(lhs.type))
      prod2 == Wrap(e, Bits(rhs.type))
  IN Checked(lhs, rhs, e,
             (x > 0 /\ y < 0 /\ prod1 < 0) \/ (x < 0 /\ y > 0 /\ prod1 > 0),
             (x > 0 /\ y < 0 /\ prod2 < 0) \/ (x < 0 /\ y > 0 /\ prod2 > 0))

MultiplyValue(lhs, rhs) ==
  LET n == lhs.v * rhs.v
      p == Promoted(lhs.type, rhs.type)
  IN IF Fits(n, p) THEN {MultiplyChecked(lhs, rhs, n)}
     ELSE {MultiplyChecked(lhs, rhs, Wrap(n, p))}

\* x / y and x % y of C++: the quotient is truncated towards zero, the
\* remainder has the sign of x
Abs(n) == IF n < 0 THEN -n ELSE n
Quotient(x, y) ==
  IF (x < 0) = (y < 0) THEN Abs(x) \div Abs(y) ELSE -(Abs(x) \div Abs(y))
Remainder(x, y) == x - y * Quotient(x, y)

\* lines 464-471 (483-490): the result cast to the type of the operand that is
\* not narrower, the left one on equal width
Cast(lhs, rhs, e) == IntValue(Wider(lhs, rhs), Wrap(e, Bits(Wider(lhs, rhs))))

\* lines 455-472; the least value of the promoted type divided by -1 is
\* undefined: the division traps, or gives the wrapped quotient
DivideValue(lhs, rhs) ==
  LET p == Promoted(lhs.type, rhs.type) IN
  IF rhs.v = 0 THEN {Throw("DivideByZero")}
  ELSE IF Fits(Quotient(lhs.v, rhs.v), p) THEN {Cast(lhs, rhs, Quotient(lhs.v, rhs.v))}
  ELSE {Throw("trap"), Cast(lhs, rhs, Wrap(Quotient(lhs.v, rhs.v), p))}

\* lines 474-491; x % y is undefined where x / y is
ModuloValue(lhs, rhs) ==
  LET p == Promoted(lhs.type, rhs.type) IN
  IF rhs.v = 0 THEN {Throw("DivideByZero")}
  ELSE IF Fits(Quotient(lhs.v, rhs.v), p) THEN {Cast(lhs, rhs, Remainder(lhs.v, rhs.v))}
  ELSE {Throw("trap"), Cast(lhs, rhs, Remainder(lhs.v, rhs.v))}

\* the operands tried for a type: the values around zero, around the ends of
\* its range and around the square root of its range
Near(n) == (n - 1) .. (n + 1)
Operands(t) ==
  {n \in Near(0) \cup Near(MinOf(Bits(t)) + 1) \cup Near(MaxOf(Bits(t)) - 1)
           \cup Near(2 ^ (Bits(t) \div 2)) \cup Near(-(2 ^ (Bits(t) \div 2))) :
     Fits(n, Bits(t))}

InitValue ==
  /\ IdlePool
  /\ IdleIndex
  /\ InitCrab
  /\ InitFlush
  /\ \E t1 \in IntegerTypes, t2 \in IntegerTypes :
       \E x \in Operands(t1), y \in Operands(t2) :
         calc = [NoCalc EXCEPT !.lhs = IntValue(t1, x), !.rhs = IntValue(t2, y)]

\* one operation is applied to the two operands
Operate(op, out) ==
  /\ calc.op = "none"
  /\ calc' = [calc EXCEPT !.op = op, !.out = out]
  /\ UNCHANGED <<bpm, live, hist, conc, metadata, index, hdr, tree, page_latch,
                 crab, flush>>

Add == \E out \in AddValue(calc.lhs, calc.rhs) : Operate("Add", out)
Subtract == \E out \in SubtractValue(calc.lhs, calc.rhs) : Operate("Subtract", out)
Multiply == \E out \in MultiplyValue(calc.lhs, calc.rhs) : Operate("Multiply", out)
Divide == \E out \in DivideValue(calc.lhs, calc.rhs) : Operate("Divide", out)
Modulo == \E out \in ModuloValue(calc.lhs, calc.rhs) : Operate("Modulo", out)

NextValue == Add \/ Subtract \/ Multiply \/ Divide \/ Modulo

\* the arithmetic of two integer values of any two integer types
SpecValue == InitValue /\ [][NextValue]_vars

\* ======================================================================
\* Properties
\* ======================================================================
\* every outcome the public calls can have in state s, for the pages callers know
FetchResults(s) == {FetchPage(s, p, e) : p \in live, e \in BOOLEAN}
UnpinResults(s) == {UnpinPage(s, p, d) : p \in live, d \in BOOLEAN}
FlushResults(s) == {FlushPage(s, p) : p \in live} \cup {FlushAllPages(s)}
DeleteResults(s) == {DeletePage(s, p) : p \in live}
Calls(s) ==
  FetchResults(s) \cup UnpinResults(s) \cup FlushResults(s) \cup NewPage(s)
    \cup DeleteResults(s)

\* pin holders write page bytes through the Page pointer and the pool never
\* looks at them to decide anything: the frames may hold any bytes
PageBytes == {[lsn |-> n, body |-> n] : n \in 0 .. MaxMod}
AnyBytes == [FrameIds -> PageBytes]
WithBytes(s, b) ==
  [s EXCEPT !.pages = [f \in FrameIds |-> [s.pages[f] EXCEPT !.data = b[f]]]]

Resident(s, page_id) == page_id \in DOMAIN s.page_table
Evicts(r) == r.victim # NoFrame

\* ----------------------------------------------------------------- C1
\* C1 (no live eviction): whenever FetchPage or NewPage evicts, the victim has
\* pin_count == 0 when it is chosen, and no call changes the page a frame with
\* pin_count > 0 holds.
C1_NoLiveEviction ==
  \A r \in Calls(St) :
    /\ Evicts(r) => pages[r.victim].pin_count = 0
    /\ \A f \in FrameIds :
         pages[f].pin_count > 0 => r.s.pages[f].page_id = pages[f].page_id

\* an eviction is about to happen while another frame is pinned
C1_Witness ==
  /\ \E r \in FetchResults(St) \cup NewPage(St) : Evicts(r)
  /\ \E f \in FrameIds : pages[f].pin_count > 0

\* ----------------------------------------------------------------- C3
\* C3 (resource conservation): |free_list| + |page_table| == pool_size, and no
\* frame is both in the free list and a value of page_table.
C3_ResourceConservation ==
  /\ Len(free_list) + Cardinality(DOMAIN page_table) = PoolSize
  /\ Range(free_list) \cap Range(page_table) = {}

\* ----------------------------------------------------------------- C4
\* C4 (injective page table): no two resident page ids map to the same frame,
\* and the frame of every entry pid -> f holds page id pid.
C4_PageTableInjective ==
  /\ \A p, q \in DOMAIN page_table : page_table[p] = page_table[q] => p = q
  /\ \A p \in DOMAIN page_table : pages[page_table[p]].page_id = p

\* the pool is full of resident pages and one of them has been evicted for another
C4_Witness ==
  /\ Cardinality(DOMAIN page_table) = PoolSize
  /\ \E p \in live : ~Resident(St, p) /\ disk[p] # NoData

\* ----------------------------------------------------------------- C2
\* the calls io, in order: every WritePage comes right after a log Flush up to
\* at least the LSN in the header of the bytes written
WalOrdered(io) ==
  \A i \in DOMAIN io :
    io[i].call = "Write" =>
      /\ i > 1
      /\ io[i - 1].call = "Flush"
      /\ io[i - 1].lsn >= GetLSN(io[i].data)

Quiescent == \A f \in FrameIds : pages[f].pin_count = 0

\* C5 (pin safety / durability): FlushAllPages in a quiescent state leaves a
\* file from which every non-deleted page reads back as the bytes of its most
\* recent modification that was unpinned as dirty.
C5_Durability ==
  Quiescent =>
    LET r == FlushAllPages(St) IN
    \A p \in live :
      committed[p] # NoData =>
        ReadPage(r.s.disk, p, ZeroData, FALSE).data = committed[p]

\* ----------------------------------------------------------------- C6
NoFrameLeft == Len(free_list) = 0 /\ Len(replacer) = 0

\* C6 as stated: FetchPage(pid) returns null exactly when pid is not resident,
\* the free list is empty and the replacer has no eligible frame (all frames are
\* pinned), then changing nothing and doing no I/O; in every other case it
\* returns a page whose page_id is pid.
C6_FetchNullOrPage ==
  \A p \in live, e \in BOOLEAN :
    LET r == FetchPage(St, p, e) IN
    /\ r.res = "null" <=> (~Resident(St, p) /\ NoFrameLeft)
    /\ r.res = "null" =>
         /\ r.s = St
         /\ r.io = <<>>
         /\ \A f \in FrameIds : pages[f].pin_count > 0
    /\ r.res # "null" => r.res = "page" /\ r.s.pages[r.frame].page_id = p

\* C6 amended: as above, but a miss with outbound_is_error set whose disk read
\* finds the page never written raises the IO error of the failed read instead
\* of returning a page; every other call that is not null returns the page of pid.
C6_FetchNullPageOrIOError ==
  \A p \in live, e \in BOOLEAN :
    LET r == FetchPage(St, p, e) IN
    /\ r.res = "null" <=> (~Resident(St, p) /\ NoFrameLeft)
    /\ r.res = "null" =>
         /\ r.s = St
         /\ r.io = <<>>
         /\ \A f \in FrameIds : pages[f].pin_count > 0
    /\ r.res = "io_error" <=>
         (r.res # "null" /\ e /\ ~Resident(St, p) /\ r.s.disk[p] = NoData)
    /\ r.res \notin {"null", "io_error"} =>
         r.res = "page" /\ r.s.pages[r.frame].page_id = p

\* every frame is pinned and a page that is not resident is fetched
C6_Witness ==
  \E p \in live : ~Resident(St, p) /\ NoFrameLeft /\ FetchPage(St, p, FALSE).res = "null"

\* ----------------------------------------------------------------- C7
\* C7: UnpinPage returns false when pid is not resident or its pin_count is
\* already zero, and a false return changes nothing (the dirty flag included).
C7_UnpinFalseNoChange ==
  \A p \in live, d \in BOOLEAN :
    LET r == UnpinPage(St, p, d) IN
    /\ (~Resident(St, p) \/ pages[page_table[p]].pin_count = 0) => r.res = "false"
    /\ r.res = "false" => r.s = St

\* ----------------------------------------------------------------- C8
\* C8: NewPage returns null only when the free list and the replacer are both
\* empty, and then allocates no page id and leaves *out_pid and the pool as they
\* were; whenever a free or eligible frame exists it returns a page.
C8_NewPageNull ==
  \A r \in NewPage(St) :
    /\ r.res = "null" =>
         /\ NoFrameLeft
         /\ r.s = St
         /\ r.pid = INVALID_PAGE_ID
         /\ r.io = <<>>
    /\ ~NoFrameLeft => r.res = "page"

\* no frame is left although the disk manager could hand out an id
C8_Witness ==
  /\ NoFrameLeft
  /\ AllocatePage(next_page_id, freed_ids) # {}
  /\ \E r \in NewPage(St) : r.res = "null"

\* ----------------------------------------------------------------- C9
\* C9: a successful NewPage returns a frame that page_table maps from the page
\* id just allocated by the disk manager, with pin_count == 1, is_dirty == false
\* and all data bytes zero, and it reads nothing from disk.
C9_NewPageFresh ==
  \A b \in AnyBytes : \A r \in NewPage(WithBytes(St, b)) :
    r.res = "page" =>
      /\ r.io[1] = Ev("Alloc", r.pid, 0, NoData)
      /\ Resident(r.s, r.pid) /\ r.s.page_table[r.pid] = r.frame
      /\ r.s.pages[r.frame] =
           [page_id |-> r.pid, pin_count |-> 1, is_dirty |-> FALSE,
            data |-> ZeroData]
      /\ \A i \in DOMAIN r.io : r.io[i].call # "Read"

\* the new page takes over a dirty victim that holds written bytes
C9_Witness ==
  \E b \in AnyBytes : \E r \in NewPage(WithBytes(St, b)) :
    /\ r.res = "page"
    /\ Evicts(r)
    /\ pages[r.victim].is_dirty
    /\ b[r.victim] # ZeroData

\* ---------------------------------------------------------------- C10
\* C10: DeletePage(pid) on a resident page with pin_count > 0 returns false and
\* leaves page table, free list, replacer and every frame (page_id, pin_count,
\* dirty flag, data) as before the call.
C10_DeletePinned ==
  \A b \in AnyBytes : \A p \in live :
    LET s == WithBytes(St, b)
        r == DeletePage(s, p)
    IN
    (Resident(s, p) /\ s.pages[s.page_table[p]].pin_count > 0) =>
      /\ r.res = "false"
      /\ r.s.pages = s.pages
      /\ r.s.page_table = s.page_table
      /\ r.s.free_list = s.free_list
      /\ r.s.replacer = s.replacer

\* a dirty page that two callers hold pinned is deleted
C10_Witness ==
  \E p \in live :
    /\ Resident(St, p)
    /\ pages[page_table[p]].pin_count = MaxPin
    /\ pages[page_table[p]].is_dirty
    /\ DeletePage(St, p).res = "false"

\* ---------------------------------------------------------------- C11
\* C11: DeletePage(pid) returns true when pid is not resident, leaving the pool
\* (frames, page table, free list, replacer) unchanged, and when pid is resident
\* with pin_count == 0; then pid is absent from page_table, its frame is in the
\* free list, absent from the replacer, carries INVALID_PAGE_ID, and no
\* WritePage is issued even if the frame was dirty.
C11_DeleteUnpinned ==
  \A b \in AnyBytes : \A p \in live :
    LET s == WithBytes(St, b)
        r == DeletePage(s, p)
    IN
    /\ ~Resident(s, p) =>
         /\ r.res = "true"
         /\ r.s.pages = s.pages
         /\ r.s.page_table = s.page_table
         /\ r.s.free_list = s.free_list
         /\ r.s.replacer = s.replacer
    /\ (Resident(s, p) /\ s.pages[s.page_table[p]].pin_count = 0) =>
         LET f == s.page_table[p] IN
         /\ r.res = "true"
         /\ ~Resident(r.s, p)
         /\ f \in Range(r.s.free_list)
         /\ f \notin Range(r.s.replacer)
         /\ r.s.pages[f].page_id = INVALID_PAGE_ID
         /\ r.s.disk = s.disk
         /\ \A i \in DOMAIN r.io : r.io[i].call # "Write"

\* a dirty resident page nobody pins is deleted while it sits in the replacer
C11_Witness ==
  \E p \in live :
    /\ Resident(St, p)
    /\ pages[page_table[p]].pin_count = 0
    /\ pages[page_table[p]].is_dirty
    /\ page_table[p] \in Range(replacer)
    /\ DeletePage(St, p).res = "true"

\* ---------------------------------------------------------------- C12
\* the positions in io of the steps named call
At(io, call) == {i \in DOMAIN io : io[i].call = call}

\* C12: when FetchPage or NewPage takes a victim from the replacer whose dirty
\* flag is set, WritePage(old pid, old bytes), preceded by the log flush when a
\* log manager is set, happens before the old mapping is erased and before the
\* frame is given to the new page (FetchPage's ReadPage); a clean victim is
\* reused without any WritePage.
C12_DirtyVictimWrittenFirst ==
  \A b \in AnyBytes :
    LET s == WithBytes(St, b) IN
    \A r \in FetchResults(s) \cup NewPage(s) :
      Evicts(r) =>
        LET v == s.pages[r.victim] IN
        /\ \E j \in At(r.io, "Erase") :
             At(r.io, "Erase") = {j} /\ r.io[j].pid = v.page_id
        /\ v.is_dirty =>
             \E i \in At(r.io, "Write") :
               /\ At(r.io, "Write") = {i}
               /\ r.io[i].pid = v.page_id
               /\ r.io[i].data = v.data
               /\ s.log_manager => (i > 1 /\ r.io[i - 1].call = "Flush")
               /\ \A j \in At(r.io, "Erase") \cup At(r.io, "Read") : i < j
        /\ ~v.is_dirty => (At(r.io, "Write") = {} /\ r.s.disk = s.disk)

\* a dirty victim holding written bytes is about to be evicted by a fetch
C12_Witness ==
  \E b \in AnyBytes : \E r \in FetchResults(WithBytes(St, b)) :
    /\ Evicts(r)
    /\ pages[r.victim].is_dirty
    /\ b[r.victim] # ZeroData
    /\ r.s.disk[pages[r.victim].page_id] = b[r.victim]

\* ---------------------------------------------------------------- C13
\* C13: FlushPage(pid) returns true iff pid is resident; when resident it issues
\* exactly one WritePage(pid, current bytes) whatever the dirty flag and the pin
\* count are, and leaves is_dirty == false with pin_count, mapping and replacer
\* membership unchanged; when not resident it returns false and performs no log
\* or disk I/O.
C13_FlushPage ==
  \A b \in AnyBytes : \A p \in live :
    LET s == WithBytes(St, b)
        r == FlushPage(s, p)
    IN
    /\ r.res = "true" <=> Resident(s, p)
    /\ Resident(s, p) =>
         LET f == s.page_table[p] IN
         /\ \E i \in At(r.io, "Write") :
              /\ At(r.io, "Write") = {i}
              /\ r.io[i].pid = p
              /\ r.io[i].data = s.pages[f].data
         /\ r.s.disk = WritePage(s.disk, p, s.pages[f].data)
         /\ r.s.pages = [s.pages EXCEPT ![f].is_dirty = FALSE]
         /\ r.s.page_table = s.page_table
         /\ r.s.replacer = s.replacer
         /\ r.s.free_list = s.free_list
    /\ ~Resident(s, p) => (r.res = "false" /\ r.io = <<>> /\ r.s = s)

\* a clean page that is pinned is flushed, and a page that is not resident
C13_Witness ==
  /\ \E p \in live :
       /\ Resident(St, p)
       /\ ~pages[page_table[p]].is_dirty
       /\ pages[page_table[p]].pin_count > 0
       /\ FlushPage(St, p).res = "true"
  /\ \E p \in live : ~Resident(St, p) /\ FlushPage(St, p).res = "false"

\* ---------------------------------------------------------------- C14
\* C14: FlushAllPages writes each resident page exactly once, from the frame the
\* page table maps it to and with that frame's current bytes, and writes nothing
\* for frames that hold no mapped page; afterwards no resident frame is dirty
\* and pin counts, page table, free list and replacer are unchanged.
C14_FlushAllOnce ==
  \A b \in AnyBytes :
    LET s == WithBytes(St, b)
        r == FlushAllPages(s)
        W == At(r.io, "Write")
    IN
    /\ \A p \in DOMAIN s.page_table :
         \E i \in W :
           /\ {j \in W : r.io[j].pid = p} = {i}
           /\ r.io[i].data = s.pages[s.page_table[p]].data
    /\ \A i \in W : r.io[i].pid \in DOMAIN s.page_table
    /\ \A p \in DOMAIN s.page_table : ~r.s.pages[s.page_table[p]].is_dirty
    /\ \A f \in FrameIds : r.s.pages[f].pin_count = s.pages[f].pin_count
    /\ r.s.page_table = s.page_table
    /\ r.s.free_list = s.free_list
    /\ r.s.replacer = s.replacer

\* ---------------------------------------------------------------- C15
\* the frames that are mapped in the page table and have pin_count == 0
UnpinnedResident ==
  {page_table[p] : p \in {q \in DOMAIN page_table : pages[page_table[q]].pin_count = 0}}

\* C15 (eligibility): the replacer's eligible set is exactly the set of frames
\* that are resident with pin_count == 0; free frames and pinned frames are
\* never in it, and every unpinned resident frame is in it.
C15_Eligibility ==
  /\ Range(replacer) = UnpinnedResident
  /\ Range(replacer) \cap Range(free_list) = {}
  /\ \A f \in Range(replacer) : pages[f].pin_count = 0

\* ---------------------------------------------------------------- C16
\* the frames that carry page id p
FramesOf(p) == {f \in FrameIds : pages[f].page_id = p}

C18_BuildKeySizes ==
  index # NoIndex =>
    IF metadata.type = "BPlusTreeType" /\ metadata.key_size \in {4, 8, 16, 32, 64}
      THEN index = [kind |-> "BPlusTreeIndex", key_size |-> metadata.key_size]
      ELSE index.kind = "NotImplemented"

\* a B+Tree index over the widest key has been built
C18_Witness ==
  /\ metadata = [type |-> "BPlusTreeType", key_size |-> 64]
  /\ index.kind = "BPlusTreeIndex"

\* ---------------------------------------------------------------- C19
\* the smallest integer >= n / d, for n >= 0 and d > 0
Ceil(n, d) == (n + d - 1) \div d

\* C19 as stated: GetMinSize returns max_size/2 (integer division) for a leaf
\* page and ceil((max_size+1)/2) for an internal page, for every max_size >= 1.
C19_MinSizeCeilPlusOne ==
  hdr.max_size >= 1 =>
    /\ hdr.page_type = "LEAF_PAGE" => GetMinSize(hdr) = hdr.max_size \div 2
    /\ hdr.page_type = "INTERNAL_PAGE" =>
         GetMinSize(hdr) = Ceil(hdr.max_size + 1, 2)

\* C19 amended: GetMinSize returns max_size/2 (integer division) for a leaf page
\* and (max_size+1)/2 in integer division, which is ceil(max_size/2), for an
\* internal page, for every max_size >= 1.
C19_MinSizeCeilHalf ==
  hdr.max_size >= 1 =>
    /\ hdr.page_type = "LEAF_PAGE" => GetMinSize(hdr) = hdr.max_size \div 2
    /\ hdr.page_type = "INTERNAL_PAGE" =>
         /\ GetMinSize(hdr) = Ceil(hdr.max_size, 2)
         /\ 2 * GetMinSize(hdr) \in {hdr.max_size, hdr.max_size + 1}

\* an internal page with an even max_size, where the two roundings differ
C19_Witness ==
  /\ hdr.page_type = "INTERNAL_PAGE"
  /\ hdr.max_size = 4
  /\ GetMinSize(hdr) = 2

\* ---------------------------------------------------------------- C20
\* C20 (occupancy): after every completed InsertEntry or DeleteEntry, in any
\* sequence, every non-root B+Tree page has GetMinSize() <= size <= max_size;
\* only the root may be smaller, and the root has size 0 iff the tree is empty
\* (an empty tree has no root page, a root page has at least one slot).
C20_Occupancy ==
  /\ \A i \in DOMAIN tree.nodes :
       LET h == tree.nodes[i].hdr IN
       /\ GetSize(h) = Len(tree.nodes[i].slots)
       /\ GetMaxSize(h) = IF IsLeafPage(h) THEN tree.leaf_max ELSE tree.internal_max
       /\ GetSize(h) <= GetMaxSize(h)
       /\ i # tree.root => GetMinSize(h) <= GetSize(h)
       /\ i = tree.root <=> IsRootPage(h)
  /\ tree.root # INVALID_PAGE_ID =>
       /\ tree.root \in DOMAIN tree.nodes
       /\ GetSize(tree.nodes[tree.root].hdr) >= 1
  /\ tree.root = INVALID_PAGE_ID <=> Entries(tree) = {}

\* a tree of height three whose internal pages below the root are at their
\* minimum size
C20_Witness ==
  \E i \in DOMAIN tree.nodes :
    LET h == tree.nodes[i].hdr IN
    /\ ~IsLeafPage(h)
    /\ ~IsRootPage(h)
    /\ GetSize(h) = GetMinSize(h)

\* ---------------------------------------------------------------- C17
\* page a is a proper ancestor of page n
IsAncestor(a, n) == \E k \in 1 .. CrabDepth : n \div (2 ^ k) = a

\* the threads that hold a latch on page n in a mode that excludes mode
Holders(n, mode) ==
  (IF page_latch[n].w = NoThread THEN {} ELSE {page_latch[n].w})
    \cup (IF mode = "W" THEN page_latch[n].r ELSE {})

\* thread t waits for a lock that thread u holds
WaitsFor(t, u) ==
  /\ t # u
  /\ \/ crab[t].pc \in {"fetch", "unpin"} /\ latch = u
     \/ crab[t].pc = "latch" /\ u \in Holders(crab[t].want, crab[t].mode)
     \/ crab[t].pc = "infetch" /\ \E n \in FetchLatches(crab[t].want) : u \in Holders(n, "W")

\* the threads reached from the set S along WaitsFor in at most k steps
RECURSIVE Waited(_, _)
Waited(S, k) ==
  IF k = 0 THEN {}
  ELSE LET N == {u \in Threads : \E t \in S : WaitsFor(t, u)} IN N \cup Waited(N, k - 1)

NoWaitCycle == \A t \in Threads : t \notin Waited({t}, NumThreads)
RootFirst ==
  \A t \in Threads :
    crab[t].pc = "latch" => \A h \in crab[t].held : IsAncestor(h, crab[t].want)
MutexNeverWaits ==
  \A t \in Threads :
    latch = t =>
      /\ crab[t].pc \in {"infetch", "inunpin"}
      /\ \A u \in Threads : ~WaitsFor(t, u)

Leaves(T) == {i \in DOMAIN T.nodes : IsLeafPage(T.nodes[i].hdr)}
KeysOf(slots) == [i \in DOMAIN slots |-> slots[i].key]

\* the separator key that leads to page id: the key of its slot in its parent,
\* or, for a first child, whose slot key is unused, the separator of the parent
RECURSIVE SeparatorOf(_, _)
SeparatorOf(T, id) ==
  LET par == T.nodes[T.nodes[id].hdr.parent_page_id]
      i == IndexIn(par.slots, id)
  IN IF i > 1 THEN par.slots[i].key
     ELSE SeparatorOf(T, T.nodes[id].hdr.parent_page_id)

\* C21 (leaf split): a leaf splits only when an insert makes its size exceed
\* max_size; the upper half moves to a new right leaf, the separator pushed to
\* the parent is the first key of the new right leaf, and the chain becomes
\* old.next = new, new.next = old's former next. With leaf_max = internal_max
\* = 3, inserting 4 after 1, 2, 3 yields an internal root with the single
\* separator 3 over the leaves {1,2} and {3,4}.
C21_LeafSplit ==
  /\ \A k \in Keys, rid \in Rids :
       (tree.root # INVALID_PAGE_ID /\ <<k, rid>> \notin Entries(tree)) =>
         LET id == FindLeaf(tree.nodes, tree.root, k)
             old == tree.nodes[id]
             all == InsertAt(old.slots, LeafPos(old.slots, k), Slot(k, rid))
             T2 == InsertEntry(tree, k, rid)
             new == Leaves(T2) \ Leaves(tree)
         IN
         IF Len(all) <= tree.leaf_max
           THEN new = {} /\ T2.nodes[id].slots = all /\ T2.nodes[id].next = old.next
           ELSE \E n \in new :
                  /\ new = {n}
                  /\ T2.nodes[id].slots \o T2.nodes[n].slots = all
                  /\ Len(T2.nodes[n].slots) = Len(all) \div 2
                  /\ T2.nodes[id].next = n
                  /\ T2.nodes[n].next = old.next
                  /\ SeparatorOf(T2, n) = T2.nodes[n].slots[1].key
  /\ ( /\ tree.leaf_max = 3 /\ tree.internal_max = 3
       /\ tree.root # INVALID_PAGE_ID
       /\ IsLeafPage(tree.nodes[tree.root].hdr)
       /\ KeysOf(tree.nodes[tree.root].slots) = <<1, 2, 3>> ) =>
       LET T2 == InsertEntry(tree, 4, 1)
           root == T2.nodes[T2.root]
           l == root.slots[1].val
           r == root.slots[2].val
       IN
       /\ ~IsLeafPage(root.hdr)
       /\ Len(root.slots) = 2
       /\ root.slots[2].key = 3
       /\ KeysOf(T2.nodes[l].slots) = <<1, 2>>
       /\ KeysOf(T2.nodes[r].slots) = <<3, 4>>
       /\ T2.nodes[l].next = r
       /\ T2.nodes[r].next = INVALID_PAGE_ID

\* E1: the root leaf {1,2,3} with leaf_max = internal_max = 3 has just split on
\* the insert of 4
C21_Witness ==
  /\ tree.leaf_max = 3 /\ tree.internal_max = 3
  /\ tree.root # INVALID_PAGE_ID
  /\ ~IsLeafPage(tree.nodes[tree.root].hdr)
  /\ Len(tree.nodes[tree.root].slots) = 2
  /\ tree.nodes[tree.root].slots[2].key = 3
  /\ KeysOf(tree.nodes[tree.nodes[tree.root].slots[1].val].slots) = <<1, 2>>
  /\ KeysOf(tree.nodes[tree.nodes[tree.root].slots[2].val].slots) = <<3, 4>>

\* ---------------------------------------------------------------- C22
\* the leaf slots that hold the keys, each with the record id 1
FirstRid(keys) == [i \in DOMAIN keys |-> Slot(keys[i], 1)]

\* tree T with leaf_max = internal_max = 3 is an internal root with the single
\* separator sep over two leaves holding the keys left and right
TwoLeaves(T, left, sep, right) ==
  /\ T.leaf_max = 3 /\ T.internal_max = 3
  /\ T.root # INVALID_PAGE_ID
  /\ ~IsLeafPage(T.nodes[T.root].hdr)
  /\ Len(T.nodes[T.root].slots) = 2
  /\ T.nodes[T.root].slots[2].key = sep
  /\ T.nodes[T.nodes[T.root].slots[1].val].slots = FirstRid(left)
  /\ T.nodes[T.nodes[T.root].slots[2].val].slots = FirstRid(right)

SoleLeaf(T, keys) ==
  /\ T.root # INVALID_PAGE_ID
  /\ DOMAIN T.nodes = {T.root}
  /\ IsLeafPage(T.nodes[T.root].hdr)
  /\ IsRootPage(T.nodes[T.root].hdr)
  /\ T.nodes[T.root].slots = FirstRid(keys)

RidsOf(T, k) == {e[2] : e \in {x \in Entries(T) : x[1] = k}}
\* ScanKey(k) sees every entry with key k: they all lie in the leaf the
\* descent lands on
InOneLeaf(T, k) == Range(ScanKey(T, k)) = RidsOf(T, k)

C25_CacheHit ==
  \A b \in AnyBytes, e \in BOOLEAN :
    LET s == WithBytes(St, b) IN
    \A p \in DOMAIN s.page_table :
      LET f == s.page_table[p]
          r == FetchPage(s, p, e)
      IN
      /\ r.res = "page" /\ r.frame = f /\ r.pid = p
      /\ r.s.pages[f].pin_count = s.pages[f].pin_count + 1
      /\ r.s.replacer = Remove(s.replacer, f)
      /\ r.s.pages = [s.pages EXCEPT ![f].pin_count = @ + 1]
      /\ r.io = <<>>
      /\ ~Evicts(r)
      /\ r.s.page_table = s.page_table
      /\ r.s.free_list = s.free_list
      /\ r.s.disk = s.disk
      /\ r.s.next_page_id = s.next_page_id
      /\ r.s.freed_ids = s.freed_ids

\* a resident, unpinned, dirty page sits in the replacer with another frame
\* before it, and the free list is empty
C25_Witness ==
  /\ free_list = <<>>
  /\ Len(replacer) = 2
  /\ \E p \in DOMAIN page_table :
       /\ page_table[p] = replacer[2]
       /\ pages[page_table[p]].is_dirty
       /\ pages[page_table[p]].pin_count = 0

\* ---------------------------------------------------------------- C26
\* the calls that need a frame: FetchPage of a page that is not cached, and
\* NewPage once it has allocated a page id
Misses(s) ==
  {FetchPage(s, p, e) : p \in PageIds \ DOMAIN s.page_table, e \in BOOLEAN}
    \cup {r \in NewPage(s) : r.pid # INVALID_PAGE_ID}

\* frame f holds a resident page: the page table maps its page id to it
HoldsResident(s, f) ==
  /\ s.pages[f].page_id \in DOMAIN s.page_table
  /\ s.page_table[s.pages[f].page_id] = f

\* C26 (frame acquisition order): on a miss FetchPage and NewPage take a frame
\* from the free list whenever it is non-empty and evict nothing; only with an
\* empty free list do they evict, and the victim is the resident frame whose
\* pin_count dropped to zero least recently (the head of the replacer).
C26_AcquisitionOrder ==
  \A b \in AnyBytes :
    LET s == WithBytes(St, b) IN
    \A r \in Misses(s) :
      IF s.free_list # <<>>
        THEN /\ ~Evicts(r)
             /\ r.res # "null"
             /\ r.s.free_list \o <<r.s.page_table[r.pid]>> = s.free_list
             /\ r.s.replacer = s.replacer
             /\ \A q \in DOMAIN s.page_table : q \in DOMAIN r.s.page_table
        ELSE IF s.replacer = <<>>
          THEN r.res = "null" /\ ~Evicts(r) /\ r.s.page_table = s.page_table
          ELSE /\ Evicts(r)
               /\ r.victim = s.replacer[1]
               /\ r.s.replacer = Tail(s.replacer)
               /\ s.pages[r.victim].pin_count = 0
               /\ HoldsResident(s, r.victim)
               /\ r.s.page_table[r.pid] = r.victim

\* ---------------------------------------------------------------- C27
\* C27 (successful UnpinPage): an UnpinPage(pid, is_dirty) that returns true
\* takes exactly one from pin_count, sets dirty to dirty OR is_dirty, so that a
\* dirty page stays dirty through UnpinPage(pid, false), and puts the frame
\* into the replacer exactly when pin_count reaches zero; nothing else changes.
C27_UnpinSuccess ==
  \A b \in AnyBytes, d \in BOOLEAN :
    LET s == WithBytes(St, b) IN
    \A p \in DOMAIN s.page_table :
      LET f == s.page_table[p]
          r == UnpinPage(s, p, d)
      IN
      /\ (s.pages[f].is_dirty /\ ~d) => r.s.pages[f].is_dirty
      /\ (r.res = "true") =>
           /\ r.s.pages[f].pin_count = s.pages[f].pin_count - 1
           /\ r.s.pages[f].is_dirty = (s.pages[f].is_dirty \/ d)
           /\ r.s.pages =
                [s.pages EXCEPT ![f].pin_count = @ - 1,
                                ![f].is_dirty = (@ \/ d)]
           /\ f \notin Range(s.replacer)
           /\ (r.s.pages[f].pin_count = 0) => r.s.replacer = Append(s.replacer, f)
           /\ (r.s.pages[f].pin_count > 0) => r.s.replacer = s.replacer
           /\ r.io = <<>>
           /\ r.s.page_table = s.page_table
           /\ r.s.free_list = s.free_list
           /\ r.s.disk = s.disk

\* a dirty page is pinned twice: UnpinPage(pid, false) keeps it dirty and out
\* of the replacer, the next one puts it in
C27_Witness ==
  \E p \in DOMAIN page_table :
    LET f == page_table[p] IN
    /\ pages[f].is_dirty
    /\ pages[f].pin_count = 2
    /\ UnpinPage(St, p, FALSE).res = "true"
    /\ UnpinPage(UnpinPage(St, p, FALSE).s, p, FALSE).res = "true"

\* ---------------------------------------------------------------- C28
\* C28 (DeletePage deallocates first): every DeletePage(pid) tells the disk
\* manager to deallocate pid before anything else: when pid is not resident,
\* when the page is deleted, and when the call returns false because the page
\* is still pinned.
C28_DeleteDeallocates ==
  \A p \in PageIds :
    LET r == DeletePage(St, p) IN
    /\ Len(r.io) >= 1
    /\ r.io[1] = Ev("Dealloc", p, 0, NoData)
    /\ p \in r.s.freed_ids
    /\ r.res \in {"true", "false"}
    /\ (r.res = "false") <=> (Resident(St, p) /\ pages[page_table[p]].pin_count > 0)

\* the id of a page that is resident and pinned has been deallocated by a
\* DeletePage that returned false, and another page id is not resident
C28_Witness ==
  /\ \E p \in DOMAIN page_table :
       /\ pages[page_table[p]].pin_count > 0
       /\ p \in freed_ids
       /\ DeletePage(St, p).res = "false"
  /\ \E p \in PageIds : ~Resident(St, p) /\ DeletePage(St, p).res = "true"

\* ---------------------------------------------------------------- C29
\* the frames the page table maps to
Mapped(s) == {s.page_table[p] : p \in DOMAIN s.page_table}

\* C29 (NewPage is fresh among the resident pages): NewPage never returns a
\* page id that is resident in the pool, so recording the new mapping never
\* overwrites a page table entry or orphans a frame, also after a DeletePage
\* that returned false on a pinned page, with deallocated ids reused.
C29_NewPageNotResident ==
  \A r \in NewPage(St) :
    (r.res = "page") =>
      /\ ~Resident(St, r.pid)
      /\ \A f \in Mapped(St) : f = r.victim \/ f \in Mapped(r.s)

\* ---------------------------------------------------------------- C30
\* C30 (flush against a concurrent writer): the bytes FlushPageHelper hands to
\* WritePage carry an LSN <= the L it passed to log.Flush just before, also
\* while another thread that holds the page pinned writes a newer LSN into it,
\* at every interleaving of the header read, the log flush, the write and the
\* modification.
C30_FlushedLogCoversWrite ==
  (flush.written # NoData) => GetLSN(flush.written) <= flush.flushed

\* ---------------------------------------------------------------- C31
\* C31 (a failed disk read leaves no residue): when FetchPage(pid, true) misses
\* and the disk read fails with an IO error, pid is not left in the page table
\* with pin_count 1 and no frame was taken from the free list: apart from a
\* completed write-back of the victim the pool is as before the call.
C31_FailedReadNoResidue ==
  \A p \in PageIds \ DOMAIN page_table :
    LET r == FetchPage(St, p, TRUE) IN
    (r.res = "io_error") =>
      /\ p \notin DOMAIN r.s.page_table
      /\ r.s.free_list = free_list
      /\ r.s.replacer = replacer
      /\ \A f \in FrameIds :
           /\ r.s.pages[f].page_id = pages[f].page_id
           /\ r.s.pages[f].pin_count = pages[f].pin_count

\* ---------------------------------------------------------------- C32
\* the outcome is the exact result n in the type of the wider operand (the left
\* one on equal width) when n is representable in it, else an OutOfRange error
ExactOrOutOfRange(out, n) ==
  LET t == Wider(calc.lhs, calc.rhs) IN
  IF Fits(n, Bits(t)) THEN out = IntValue(t, n) ELSE out = Throw("OutOfRange")

\* C32 (integer addition and subtraction): over the operand widths the result
\* of AddValue and SubtractValue has the type of the wider operand (the left
\* one on equal width) and is the exact sum or difference whenever that is
\* representable in that type; when it is not, an OutOfRange error is raised
\* instead of a wrapped value.
C32_AddSubtractExact ==
  /\ \A out \in AddValue(calc.lhs, calc.rhs) :
       ExactOrOutOfRange(out, calc.lhs.v + calc.rhs.v)
  /\ \A out \in SubtractValue(calc.lhs, calc.rhs) :
       ExactOrOutOfRange(out, calc.lhs.v - calc.rhs.v)

\* ---------------------------------------------------------------- C33
\* C33 (integer multiplication): whenever the exact product is representable
\* in the wider operand's type, a positive times a negative operand included,
\* MultiplyValue returns it without error, and an OutOfRange error is raised
\* exactly when the product is not representable, positive times positive and
\* negative times negative included.
C33_MultiplyExact ==
  \A out \in MultiplyValue(calc.lhs, calc.rhs) :
    ExactOrOutOfRange(out, calc.lhs.v * calc.rhs.v)

\* ---------------------------------------------------------------- C34
\* C34 (integer division and modulo): a zero right operand always raises
\* DivideByZero and gives no value; for a non-zero right operand DivideValue
\* and ModuloValue return the truncated quotient and the remainder in the type
\* of the wider operand, the exact quotient for every pair of operands, the
\* minimum value divided by -1 included.
C34_DivideModuloExact ==
  LET t == Wider(calc.lhs, calc.rhs) IN
  /\ \A out \in DivideValue(calc.lhs, calc.rhs) :
       IF calc.rhs.v = 0 THEN out = Throw("DivideByZero")
       ELSE out = IntValue(t, Quotient(calc.lhs.v, calc.rhs.v))
  /\ \A out \in ModuloValue(calc.lhs, calc.rhs) :
       IF calc.rhs.v = 0 THEN out = Throw("DivideByZero")
       ELSE out = IntValue(t, Remainder(calc.lhs.v, calc.rhs.v))

====
